---------------------------- MODULE Spec2Model ----------------------------
(***************************************************************************)
(* A model of bme280pi's readout module (src/bme280pi/readout.py): the     *)
(* register protocol of read_raw_sensor, the calibration parser, the       *)
(* compensation formulas and the read_sensor pipeline.                     *)
(*                                                                         *)
(* Python integers are unbounded; the model's integers are TLC's, so the   *)
(* integer inputs are kept where every intermediate product fits.  Python  *)
(* floats are modelled as exact rationals over arbitrary-precision         *)
(* integers (the Q* operators): IEEE rounding is not modelled, the control *)
(* flow around the arithmetic (guards, clamps, order of calls) is.         *)
(***************************************************************************)
EXTENDS Integers, Sequences, FiniteSets, TLC

VARIABLES
    pc,            \* position of the read_sensor invocation
    oversampling,  \* the oversampling argument of read_sensor
    reg_data,      \* the reg_data argument of read_sensor
    ops,           \* bus operations and sleeps issued so far, in order
    exc,           \* the exception that reached the caller, or "none"
    cal,           \* calibration blocks read so far in read_raw_sensor
    data,          \* the measurement block read, or <<>>
    frame,         \* locals of read_sensor, extract_values and print_data
    calls,         \* the compensation calls extract_values made, in order
    args,          \* the arguments the caller passed
    ret,           \* the value returned to the caller, or None
    past,          \* what the bus returned in the invocations before this
    sensor,        \* the Sensor object under construction or in use, or None
    printed        \* the lines print_data has written, in order

vars == <<pc, oversampling, reg_data, ops, exc, cal, data, frame, calls,
          args, ret, past, sensor, printed>>

None == [kind |-> "None"]

(***************************************************************************)
(* Python's integer operators: <<, >>, & and | on unbounded two's-         *)
(* complement integers.                                                    *)
(***************************************************************************)
RECURSIVE Pow2(_)
Pow2(n) == IF n = 0 THEN 1 ELSE 2 * Pow2(n - 1)

Shl(x, n) == x * Pow2(n)

Shr(x, n) == x \div Pow2(n)

RECURSIVE BitAnd(_, _)
BitAnd(a, b) ==
    IF a = 0 \/ b = 0 THEN 0
    ELSE IF a = -1 THEN b
    ELSE IF b = -1 THEN a
    ELSE 2 * BitAnd(a \div 2, b \div 2) + (a % 2) * (b % 2)

RECURSIVE BitOr(_, _)
BitOr(a, b) ==
    IF a = 0 THEN b
    ELSE IF b = 0 THEN a
    ELSE IF a = -1 \/ b = -1 THEN -1
    ELSE 2 * BitOr(a \div 2, b \div 2)
         + (IF a % 2 = 1 \/ b % 2 = 1 THEN 1 ELSE 0)

(***************************************************************************)
(* Arbitrary-precision integers: <<sign, magnitude>>, the magnitude a      *)
(* little-endian sequence of limbs in base 10000 with no leading zero limb.*)
(***************************************************************************)
Limb == 100 * 100

RECURSIVE MagNorm(_)
MagNorm(m) ==
    IF m = <<>> THEN <<>>
    ELSE IF m[Len(m)] = 0 THEN MagNorm(SubSeq(m, 1, Len(m) - 1))
    ELSE m

RECURSIVE MagOfNat(_)
MagOfNat(n) == IF n = 0 THEN <<>> ELSE <<n % Limb>> \o MagOfNat(n \div Limb)

RECURSIVE MagAddC(_, _, _)
MagAddC(a, b, c) ==
    IF a = <<>> /\ b = <<>> THEN (IF c = 0 THEN <<>> ELSE <<c>>)
    ELSE LET x == IF a = <<>> THEN 0 ELSE Head(a)
             y == IF b = <<>> THEN 0 ELSE Head(b)
             s == x + y + c
         IN  <<s % Limb>> \o MagAddC(IF a = <<>> THEN a ELSE Tail(a),
                                     IF b = <<>> THEN b ELSE Tail(b),
                                     s \div Limb)

MagAdd(a, b) == MagAddC(a, b, 0)

\* a - b for magnitudes with a >= b
RECURSIVE MagSubB(_, _, _)
MagSubB(a, b, c) ==
    IF a = <<>> THEN <<>>
    ELSE LET y == IF b = <<>> THEN 0 ELSE Head(b)
             s == Head(a) - y - c
         IN  <<s % Limb>> \o MagSubB(Tail(a),
                                     IF b = <<>> THEN b ELSE Tail(b),
                                     IF s < 0 THEN 1 ELSE 0)

MagSub(a, b) == MagNorm(MagSubB(a, b, 0))

RECURSIVE MagCmpFrom(_, _, _)
MagCmpFrom(a, b, i) ==
    IF i = 0 THEN 0
    ELSE IF a[i] < b[i] THEN -1
    ELSE IF a[i] > b[i] THEN 1
    ELSE MagCmpFrom(a, b, i - 1)

MagCmp(a, b) ==
    IF Len(a) < Len(b) THEN -1
    ELSE IF Len(a) > Len(b) THEN 1
    ELSE MagCmpFrom(a, b, Len(a))

RECURSIVE MagMulLimb(_, _, _)
MagMulLimb(a, k, c) ==
    IF a = <<>> THEN (IF c = 0 THEN <<>> ELSE <<c>>)
    ELSE LET s == Head(a) * k + c
         IN  <<s % Limb>> \o MagMulLimb(Tail(a), k, s \div Limb)

RECURSIVE MagMul(_, _)
MagMul(a, b) ==
    IF a = <<>> \/ b = <<>> THEN <<>>
    ELSE MagAdd(MagMulLimb(a, Head(b), 0),
                IF Tail(b) = <<>> THEN <<>> ELSE <<0>> \o MagMul(a, Tail(b)))

BigOf(n) ==
    IF n = 0 THEN <<0, <<>>>>
    ELSE IF n > 0 THEN <<1, MagOfNat(n)>>
    ELSE <<-1, MagOfNat(-n)>>

BigNeg(a) == <<-a[1], a[2]>>

BigAdd(a, b) ==
    IF a[1] = 0 THEN b
    ELSE IF b[1] = 0 THEN a
    ELSE IF a[1] = b[1] THEN <<a[1], MagAdd(a[2], b[2])>>
    ELSE LET c == MagCmp(a[2], b[2])
         IN  IF c = 0 THEN <<0, <<>>>>
             ELSE IF c > 0 THEN <<a[1], MagSub(a[2], b[2])>>
             ELSE <<b[1], MagSub(b[2], a[2])>>

BigSub(a, b) == BigAdd(a, BigNeg(b))

BigMul(a, b) ==
    IF a[1] = 0 \/ b[1] = 0 THEN <<0, <<>>>>
    ELSE <<a[1] * b[1], MagMul(a[2], b[2])>>

(***************************************************************************)
(* Python floats as exact rationals n / (2^k * f[1] * ... * f[Len(f)]):    *)
(* n an arbitrary-precision integer, k a natural number, f a sequence of   *)
(* positive magnitudes.  Keeping the denominator factored keeps the        *)
(* numbers short.  A rational has many representations, so rationals are   *)
(* compared with QEq and QLess, never with =, except against QOf(0): zero  *)
(* is always QOf(0).                                                       *)
(***************************************************************************)
QOf(n) == [n |-> BigOf(n), k |-> 0, f |-> <<>>]

QZero == QOf(0)

QSign(a) == a.n[1]

QNeg(a) == [a EXCEPT !.n = BigNeg(a.n)]

RECURSIVE MagProd(_)
MagProd(f) == IF f = <<>> THEN <<1>> ELSE MagMul(Head(f), MagProd(Tail(f)))

\* n * 2^j
RECURSIVE MagShl(_, _)
MagShl(m, j) ==
    IF j = 0 THEN m
    ELSE IF j >= 13 THEN MagShl(MagMulLimb(m, 8192, 0), j - 13)
    ELSE MagMulLimb(m, Pow2(j), 0)

\* n * m * 2^j for an integer n and a magnitude m
BigScale(n, m, j) ==
    IF n[1] = 0 THEN n ELSE <<n[1], MagShl(MagMul(n[2], m), j)>>

IsPrefix(f, g) == Len(f) <= Len(g) /\ SubSeq(g, 1, Len(f)) = f

QAdd(a, b) ==
    LET k  == IF a.k > b.k THEN a.k ELSE b.k
        f  == IF IsPrefix(a.f, b.f) THEN b.f
              ELSE IF IsPrefix(b.f, a.f) THEN a.f
              ELSE a.f \o b.f
        \* what each numerator is multiplied by to reach the denominator f
        fa == IF IsPrefix(a.f, b.f) THEN SubSeq(b.f, Len(a.f) + 1, Len(b.f))
              ELSE IF IsPrefix(b.f, a.f) THEN <<>>
              ELSE b.f
        fb == IF IsPrefix(a.f, b.f) THEN <<>>
              ELSE IF IsPrefix(b.f, a.f)
              THEN SubSeq(a.f, Len(b.f) + 1, Len(a.f))
              ELSE a.f
        n  == BigAdd(BigScale(a.n, MagProd(fa), k - a.k),
                     BigScale(b.n, MagProd(fb), k - b.k))
    IN  IF n[1] = 0 THEN QZero ELSE [n |-> n, k |-> k, f |-> f]

QSub(a, b) == QAdd(a, QNeg(b))

QMul(a, b) ==
    IF a.n[1] = 0 \/ b.n[1] = 0 THEN QZero
    ELSE [n |-> BigMul(a.n, b.n), k |-> a.k + b.k, f |-> a.f \o b.f]

\* the largest j with 2^j dividing n, for n > 0
RECURSIVE TwoExp(_)
TwoExp(n) == IF n % 2 = 1 THEN 0 ELSE 1 + TwoExp(n \div 2)

\* a / b for b # 0.  A divisor numerator of at most two limbs is split into
\* its power of two and its odd part.
QDiv(a, b) ==
    LET m     == b.n[2]
        small == Len(m) <= 2
        v     == IF Len(m) = 1 THEN m[1] ELSE m[1] + Limb * m[2]
        j     == IF small THEN TwoExp(v) ELSE 0
        atom  == IF ~small THEN <<m>>
                 ELSE IF v = Pow2(j) THEN <<>>
                 ELSE <<MagOfNat(v \div Pow2(j))>>
        down  == a.k + j
        n     == BigScale(a.n, MagProd(b.f),
                          IF b.k > down THEN b.k - down ELSE 0)
    IN  IF a.n[1] = 0 THEN QZero
        ELSE [n |-> IF b.n[1] < 0 THEN BigNeg(n) ELSE n,
              k |-> IF b.k > down THEN 0 ELSE down - b.k,
              f |-> a.f \o atom]

QEq(a, b) == QSign(QSub(a, b)) = 0

QLess(a, b) == QSign(QSub(a, b)) < 0

(***************************************************************************)
(* Byte extraction.  A Python list is a sequence; Python index i is        *)
(* element i + 1, and a negative index counts from the end of the list.    *)
(***************************************************************************)
\* whether data[index] finds an element; it raises IndexError when not
InRange(buf, index) == index \in -Len(buf)..(Len(buf) - 1)

At(buf, index) ==
    IF index < 0 THEN buf[Len(buf) + index + 1] ELSE buf[index + 1]

\* ctypes.c_short(v).value: v truncated to 16 bits, read as two's complement
c_short(v) == ((v + 32768) % 65536) - 32768

\* a get_short without the conversion to c_short
get_short_unconverted(buf, index) ==
    Shl(At(buf, index + 1), 8) + At(buf, index)

get_short(buf, index) ==
    c_short(Shl(At(buf, index + 1), 8) + At(buf, index))

get_unsigned_short(buf, index) ==
    Shl(At(buf, index + 1), 8) + At(buf, index)

\* a get_character whose threshold is off by one
get_character_threshold(buf, index) ==
    LET result == At(buf, index)
    IN  IF result > 128 THEN result - 256 ELSE result

get_character(buf, index) ==
    LET result == At(buf, index)
    IN  IF result > 127 THEN result - 256 ELSE result

get_unsigned_character(buf, index) == BitAnd(At(buf, index), 255)

ExtractorNames ==
    {"get_short", "get_unsigned_short", "get_character",
     "get_unsigned_character"}

\* what a call of an extractor raises: IndexError when one of the
\* subscripts it evaluates (lines 60, 73, 86, 102) is out of range
ExtractorRaises(function, buf, index) ==
    IF function \in {"get_short", "get_unsigned_short"}
    THEN IF InRange(buf, index + 1) /\ InRange(buf, index) THEN "none"
         ELSE "IndexError"
    ELSE IF InRange(buf, index) THEN "none" ELSE "IndexError"

\* what it returns when it raises nothing
Extractor(function, buf, index) ==
    IF function = "get_short" THEN get_short(buf, index)
    ELSE IF function = "get_unsigned_short"
    THEN get_unsigned_short(buf, index)
    ELSE IF function = "get_character" THEN get_character(buf, index)
    ELSE get_unsigned_character(buf, index)

(***************************************************************************)
(* Calibration parser.  get_modified takes the accessor as a function      *)
(* argument; the model takes its name.                                     *)
(***************************************************************************)
Accessor(function, buf, index) ==
    IF function = "get_character" THEN get_character(buf, index)
    ELSE get_unsigned_character(buf, index)

\* a get_modified that ignores shift
get_modified_unshifted(cals, i, function, shift) ==
    LET dig0 == get_character(cals[3], i)
        dig  == Shr(Shl(dig0, 24), 20)
    IN  BitOr(dig, BitAnd(Accessor(function, cals[3], 4), 15))

\* a get_modified that does not mask the nibble it takes from byte 4
get_modified_unmasked(cals, i, function, shift) ==
    LET dig0 == get_character(cals[3], i)
        dig  == Shr(Shl(dig0, 24), 20)
    IN  IF shift
        THEN BitOr(dig, BitAnd(Shr(Accessor(function, cals[3], 4), 4), 15))
        ELSE BitOr(dig, Accessor(function, cals[3], 4))

\* a get_modified that does not mask the shifted byte 4
get_modified_shift_unmasked(cals, i, function, shift) ==
    LET dig0 == get_character(cals[3], i)
        dig  == Shr(Shl(dig0, 24), 20)
    IN  IF shift
        THEN BitOr(dig, Shr(Accessor(function, cals[3], 4), 4))
        ELSE BitOr(dig, BitAnd(Accessor(function, cals[3], 4), 15))

get_modified(cals, i, function, shift) ==
    LET dig0 == get_character(cals[3], i)
        dig  == Shr(Shl(dig0, 24), 20)
    IN  IF shift
        THEN BitOr(dig, BitAnd(Shr(Accessor(function, cals[3], 4), 4), 15))
        ELSE BitOr(dig, BitAnd(Accessor(function, cals[3], 4), 15))

\* a process_calibration_data that reads dig_p[0] signed, like the rest of
\* dig_p
process_calibration_data_signed(cals) ==
    LET dig_t == <<get_unsigned_short(cals[1], 0),
                   get_short(cals[1], 2),
                   get_short(cals[1], 4)>>
        dig_p == [k \in 1..9 |-> get_short(cals[1], 6 + 2 * (k - 1))]
        dig_h == <<get_unsigned_character(cals[2], 0),
                   get_short(cals[3], 0),
                   get_unsigned_character(cals[3], 2),
                   get_modified(cals, 3, "get_character", FALSE),
                   get_modified(cals, 5, "get_unsigned_character", TRUE),
                   get_character(cals[3], 6)>>
    IN  <<dig_t, dig_p, dig_h>>

process_calibration_data(cals) ==
    LET dig_t == <<get_unsigned_short(cals[1], 0),
                   get_short(cals[1], 2),
                   get_short(cals[1], 4)>>
        dig_p == [k \in 1..9 |->
                    LET i == 6 + 2 * (k - 1)
                    IN  IF i = 6 THEN get_unsigned_short(cals[1], i)
                        ELSE get_short(cals[1], i)]
        dig_h == <<get_unsigned_character(cals[2], 0),
                   get_short(cals[3], 0),
                   get_unsigned_character(cals[3], 2),
                   get_modified(cals, 3, "get_character", FALSE),
                   get_modified(cals, 5, "get_unsigned_character", TRUE),
                   get_character(cals[3], 6)>>
    IN  <<dig_t, dig_p, dig_h>>

(***************************************************************************)
(* Raw measurement triple.                                                 *)
(***************************************************************************)
\* a shift_read that takes the whole of the third byte
shift_read_unshifted(values, i, j, k) ==
    BitOr(BitOr(Shl(At(values, i), 12), Shl(At(values, j), 4)),
          At(values, k))

shift_read(values, i, j, k) ==
    BitOr(BitOr(Shl(At(values, i), 12), Shl(At(values, j), 4)),
          Shr(At(values, k), 4))

extract_raw_values(block) ==
    LET raw_pressure    == shift_read(block, 0, 1, 2)
        raw_temperature == shift_read(block, 3, 4, 5)
        raw_humidity    == BitOr(Shl(At(block, 6), 8), At(block, 7))
    IN  <<raw_pressure, raw_temperature, raw_humidity>>

(***************************************************************************)
(* Compensation formulas.  dig_t, dig_p, dig_h are sequences; Python       *)
(* dig_x[k] is dig_x[k + 1] here.                                          *)
(***************************************************************************)
\* (a * b) >> n on Python's unbounded integers.  The product of a 20-bit
\* reading and a 16-bit coefficient does not fit TLC's integers, so the
\* shift is taken before the product: with a = q * 2^n + r, 0 <= r < 2^n,
\* floor(a * b / 2^n) = q * b + floor(r * b / 2^n).
MulShr(a, b, n) == Shr(a, n) * b + Shr((a % Pow2(n)) * b, n)

\* an improve_temperature_measurement whose first shift rounds towards zero
improve_temperature_truncating(temp_raw, dig_t) ==
    LET a    == Shr(temp_raw, 3) - Shl(dig_t[1], 1)
        var1 == IF (a < 0) # (dig_t[2] < 0)
                THEN -MulShr(-a, dig_t[2], 11)
                ELSE MulShr(a, dig_t[2], 11)
        var2_12 == MulShr(Shr(temp_raw, 4) - dig_t[1],
                          Shr(temp_raw, 4) - dig_t[1], 12)
        var3 == MulShr(var2_12, dig_t[3], 14)
        t_fine == var1 + var3
        temperature == Shr(t_fine * 5 + 128, 8)
    IN  [temperature |-> temperature, t_fine |-> t_fine]

\* lines 276-281; var2_12 is var2 >> 12
improve_temperature_measurement(temp_raw, dig_t) ==
    LET var1 == MulShr(Shr(temp_raw, 3) - Shl(dig_t[1], 1), dig_t[2], 11)
        var2_12 == MulShr(Shr(temp_raw, 4) - dig_t[1],
                          Shr(temp_raw, 4) - dig_t[1], 12)
        var3 == MulShr(var2_12, dig_t[3], 14)
        t_fine == var1 + var3
        temperature == Shr(t_fine * 5 + 128, 8)
    IN  [temperature |-> temperature, t_fine |-> t_fine]

\* var2 as it stands at the guard (lines 302-305)
PressureVar2(dig_p, t_fine) ==
    LET var1  == QSub(QDiv(QOf(t_fine), QOf(2)), QOf(64000))
        var2a == QDiv(QMul(QMul(var1, var1), QOf(dig_p[6])), QOf(32768))
        var2b == QAdd(var2a, QMul(QMul(var1, QOf(dig_p[5])), QOf(2)))
    IN  QAdd(QDiv(var2b, QOf(4)), QMul(QOf(dig_p[4]), QOf(65536)))

\* var1 as it stands at the guard (lines 302, 306-307)
PressureVar1(dig_p, t_fine) ==
    LET var1  == QSub(QDiv(QOf(t_fine), QOf(2)), QOf(64000))
        var1a == QDiv(QAdd(QDiv(QMul(QMul(QOf(dig_p[3]), var1), var1),
                                QOf(524288)),
                           QMul(QOf(dig_p[2]), var1)),
                      QOf(524288))
    IN  QMul(QAdd(QOf(1), QDiv(var1a, QOf(32768))), QOf(dig_p[1]))

\* the else branch (lines 312-316), for a nonzero divisor var1
PressureBranch(raw_pressure, dig_p, var1, var2) ==
    LET p0    == QSub(QOf(1048576), QOf(raw_pressure))
        p1    == QDiv(QMul(QSub(p0, QDiv(var2, QOf(4096))), QOf(6250)), var1)
        \* / 2147483648.0, which TLC cannot hold: / 65536.0 / 32768.0
        var1b == QDiv(QDiv(QMul(QMul(QOf(dig_p[9]), p1), p1), QOf(65536)),
                      QOf(32768))
        var2b == QDiv(QMul(p1, QOf(dig_p[8])), QOf(32768))
    IN  QAdd(p1, QDiv(QAdd(QAdd(var1b, var2b), QOf(dig_p[7])), QOf(16)))

\* the guard left out
PressureGuard_dropped(var1) == FALSE

\* the guard of line 309: var1 == 0
PressureGuard(var1) == QSign(var1) = 0

\* The result, whether the division by var1 (line 313) was executed, and the
\* ZeroDivisionError Python raises when a float is divided by zero.
improve_pressure_measurement(raw_pressure, dig_p, t_fine) ==
    LET var1 == PressureVar1(dig_p, t_fine)
        var2 == PressureVar2(dig_p, t_fine)
    IN  IF PressureGuard(var1)
        THEN [pressure |-> QOf(0), divided |-> FALSE, exc |-> "none"]
        ELSE IF QSign(var1) = 0
        THEN [pressure |-> None, divided |-> TRUE,
              exc |-> "ZeroDivisionError"]
        ELSE [pressure |-> PressureBranch(raw_pressure, dig_p, var1, var2),
              divided |-> TRUE, exc |-> "none"]

\* Python's min(a, b) and max(a, b): the first argument unless the second
\* is strictly smaller (larger)
PyMin(a, b) == IF QLess(b, a) THEN b ELSE a

PyMax(a, b) == IF QLess(a, b) THEN b ELSE a

\* humidity before the clamp (lines 338-343)
HumidityFormula(raw_humidity, dig_h, t_fine) ==
    LET base_value == QSub(QOf(t_fine), QOf(76800))
        term1  == QSub(QOf(raw_humidity),
                       QAdd(QMul(QOf(dig_h[4]), QOf(64)),
                            QMul(QDiv(QOf(dig_h[5]), QOf(16384)), base_value)))
        term2a == QMul(base_value,
                       QAdd(QOf(1),
                            QMul(QDiv(QOf(dig_h[3]), QOf(67108864)),
                                 base_value)))
        term2  == QMul(QDiv(QOf(dig_h[2]), QOf(65536)),
                       QAdd(QOf(1),
                            QMul(QDiv(QOf(dig_h[6]), QOf(67108864)),
                                 term2a)))
        h0     == QMul(term1, term2)
    IN  QMul(h0, QSub(QOf(1),
                      QDiv(QMul(QOf(dig_h[1]), h0), QOf(524288))))

\* the clamp without its upper end
improve_humidity_no_min(raw_humidity, dig_h, t_fine) ==
    PyMax(QZero, HumidityFormula(raw_humidity, dig_h, t_fine))

improve_humidity_measurement(raw_humidity, dig_h, t_fine) ==
    PyMax(QZero, PyMin(HumidityFormula(raw_humidity, dig_h, t_fine), QOf(100)))

(***************************************************************************)
(* read_sensor, step by step.  The oversampling argument is None, a value  *)
(* that is not a dict, or a dict: [kind |-> "dict", items |-> f] with f a  *)
(* function from its keys to its integer values.                           *)
(***************************************************************************)
Address == 118

DefaultRegData == 247

\* a default of 1/1/1
DefaultOversampling_ones ==
    [kind |-> "dict",
     items |-> [k \in {"temperature", "pressure", "humidity"} |-> 1]]

DefaultOversampling ==
    [kind |-> "dict",
     items |-> [k \in {"temperature", "pressure", "humidity"} |-> 2]]

Dict(f) == [kind |-> "dict", items |-> f]

HasKey(d, k) == k \in DOMAIN d.items

RECURSIVE SumOver(_, _)
SumOver(f, keys) ==
    IF keys = {} THEN 0
    ELSE LET k == CHOOSE x \in keys : TRUE
         IN  f[k] + SumOver(f, keys \ {k})

\* sum(oversampling.values())
SumValues(d) == SumOver(d.items, DOMAIN d.items)

\* the address a bus call is made at: read_sensor's address argument, which
\* Sensor.get_data passes as self.address (sensor.py line 156)
BusAddress == IF sensor.kind = "Sensor" THEN sensor.address ELSE Address

WriteOp(register, value, ok) ==
    [op |-> "write_byte_data", address |-> BusAddress, register |-> register,
     value |-> value, ok |-> ok]

ReadOp(register, length, ok) ==
    [op |-> "read_i2c_block_data", address |-> BusAddress,
     register |-> register, length |-> length, ok |-> ok]

\* time.sleep(wait_time / 1000), the wait kept in tenths of a millisecond
SleepOp(wait) == [op |-> "sleep", wait |-> wait]

EmptyFrame ==
    [dig_t |-> None, dig_p |-> None, dig_h |-> None,
     raw_pressure |-> None, raw_temperature |-> None, raw_humidity |-> None,
     temperature |-> None, t_fine |-> None,
     pressure |-> None, humidity |-> None, converted |-> None]

Raise(e) ==
    /\ pc' = "raised"
    /\ exc' = e

\* a validate_oversampling that falls back to the default for anything that
\* is not a dict, instead of raising
ValidateOversampling_fallback ==
    /\ pc = "validate_oversampling"
    /\ oversampling' = IF oversampling.kind = "dict" THEN oversampling
                       ELSE DefaultOversampling
    /\ pc' = "write_humidity"
    /\ UNCHANGED <<reg_data, ops, exc, cal, data, frame, calls, args, past,
                   ret, sensor, printed>>

\* validate_oversampling, as read_sensor calls it (line 427)
ValidateOversampling ==
    /\ pc = "validate_oversampling"
    /\ IF oversampling.kind = "None"
       THEN /\ oversampling' = DefaultOversampling
            /\ pc' = "write_humidity"
            /\ exc' = exc
       ELSE IF oversampling.kind # "dict"
       THEN /\ Raise("TypeError")
            /\ oversampling' = oversampling
       ELSE /\ pc' = "write_humidity"
            /\ UNCHANGED <<oversampling, exc>>
    /\ UNCHANGED <<reg_data, ops, cal, data, frame, calls, args, past, ret,
                   sensor, printed>>

\* a bus call whose failure is swallowed
BusCall_swallow(op, next) ==
    /\ ops' = Append(ops, op)
    /\ pc' = next
    /\ exc' = exc

\* A bus call: it is issued, and it returns or raises OSError.
BusCall(op, next) ==
    /\ ops' = Append(ops, op)
    /\ IF op.ok
       THEN pc' = next /\ exc' = exc
       ELSE Raise("OSError")

\* read_raw_sensor, lines 125-126
WriteHumidity ==
    /\ pc = "write_humidity"
    /\ IF ~HasKey(oversampling, "humidity")
       THEN Raise("KeyError") /\ ops' = ops
       ELSE \E ok \in BOOLEAN :
              BusCall(WriteOp(242, oversampling.items["humidity"], ok),
                      "write_control")
    /\ UNCHANGED <<oversampling, reg_data, cal, data, frame, calls, args,
                   past, ret, sensor, printed>>

\* a control byte with the parentheses of line 129 misplaced
ControlByte_precedence(d) ==
    LET control1 == Shl(d.items["temperature"], 5)
    IN  BitOr(Shl(BitOr(control1, d.items["pressure"]), 2), 1)

\* lines 128-129
\* a control byte whose fields are cut to the three bits they have
ControlByte_masked(d) ==
    LET control1 == Shl(BitAnd(d.items["temperature"], 7), 5)
    IN  BitOr(BitOr(control1, Shl(BitAnd(d.items["pressure"], 7), 2)), 1)

ControlByte(d) ==
    LET control1 == Shl(d.items["temperature"], 5)
    IN  BitOr(BitOr(control1, Shl(d.items["pressure"], 2)), 1)

\* lines 128-130
WriteControl ==
    /\ pc = "write_control"
    /\ IF ~HasKey(oversampling, "temperature")
          \/ ~HasKey(oversampling, "pressure")
       THEN Raise("KeyError") /\ ops' = ops
       ELSE \E ok \in BOOLEAN :
              BusCall(WriteOp(244, ControlByte(oversampling), ok), "read_cal1")
    /\ UNCHANGED <<oversampling, reg_data, cal, data, frame, calls, args,
                   past, ret, sensor, printed>>

(***************************************************************************)
(* What the bus returns: the blocks of the repository's test fixtures      *)
(* (src/test/sensor.py, FakeDataBus; src/test/readout.py).                 *)
(***************************************************************************)
FixtureCal1 ==
    <<96, 110, 203, 104, 50, 0, 29, 145, 59, 215, 208, 11,
      232, 38, 42, 255, 249, 255, 172, 38, 10, 216, 189, 16>>

FixtureCal2 == <<75>>

FixtureCal3 == <<129, 1, 0, 16, 44, 3, 30>>

BusCal1 == {FixtureCal1}

BusCal2 == {FixtureCal2}

\* a second block 3, of another sensor
OtherCal3 == <<110, 1, 0, 19, 40, 3, 30>>

BusCal3 == {FixtureCal3, OtherCal3}

BusData == {<<76, 60, 128, 129, 49, 128, 94, 120>>,
            <<76, 59, 0, 129, 48, 0, 94, 121>>}

\* what a read at a register may return: the registers of the device behind
\* the Sensor's bus, or for a bus passed to read_sensor any of the blocks
BusReturns(register, blocks) ==
    IF sensor.kind = "Sensor" THEN {sensor.bus.device[register]} ELSE blocks

\* one bus.read_i2c_block_data call of read_raw_sensor (lines 134-136)
ReadCal(at, register, length, blocks, next) ==
    /\ pc = at
    /\ \E ok \in BOOLEAN, block \in BusReturns(register, blocks) :
         /\ BusCall(ReadOp(register, length, ok), next)
         /\ cal' = IF ok THEN Append(cal, block) ELSE cal
    /\ UNCHANGED <<oversampling, reg_data, data, frame, calls, args, past,
                   ret, sensor, printed>>

ReadCal1 == ReadCal("read_cal1", 136, 24, BusCal1, "read_cal2")

ReadCal2 == ReadCal("read_cal2", 161, 1, BusCal2, "read_cal3")

ReadCal3 == ReadCal("read_cal3", 225, 7, BusCal3, "sleep")

\* wait_time of line 140, in tenths of a millisecond: 2.4 + 2.3 * sum(...)
WaitTime(d) == 24 + 23 * SumValues(d)

\* a read_raw_sensor that reads the measurement without waiting
Sleep_skipped ==
    /\ pc = "sleep"
    /\ pc' = "read_data"
    /\ UNCHANGED <<oversampling, reg_data, ops, exc, cal, data, frame, calls,
                   args, past, ret, sensor, printed>>

\* lines 140-143
Sleep ==
    /\ pc = "sleep"
    /\ ops' = Append(ops, SleepOp(WaitTime(oversampling)))
    /\ pc' = "read_data"
    /\ UNCHANGED <<oversampling, reg_data, exc, cal, data, frame, calls,
                   args, past, ret, sensor, printed>>

\* line 146, and the return of line 148
ReadData ==
    /\ pc = "read_data"
    /\ \E ok \in BOOLEAN, block \in BusReturns(reg_data, BusData) :
         /\ BusCall(ReadOp(reg_data, 8, ok), "process_calibration_data")
         /\ data' = IF ok THEN block ELSE data
    /\ UNCHANGED <<oversampling, reg_data, cal, frame, calls, args, past,
                   ret, sensor, printed>>

\* read_sensor, line 434
\* a read_sensor that parses the calibration blocks once and keeps the
\* coefficients of its first complete invocation
ProcessCalibration_cached ==
    /\ pc = "process_calibration_data"
    /\ LET first == IF past # <<>> /\ Len(past[1].cal) = 3
                    THEN past[1].cal ELSE cal
           dig   == process_calibration_data(first)
       IN  frame' = [frame EXCEPT !.dig_t = dig[1], !.dig_p = dig[2],
                                  !.dig_h = dig[3]]
    /\ pc' = "extract_raw_values"
    /\ UNCHANGED <<oversampling, reg_data, ops, exc, cal, data, calls, args,
                   past, ret, sensor, printed>>

ProcessCalibration ==
    /\ pc = "process_calibration_data"
    /\ LET dig == process_calibration_data(cal)
       IN  frame' = [frame EXCEPT !.dig_t = dig[1], !.dig_p = dig[2],
                                  !.dig_h = dig[3]]
    /\ pc' = "extract_raw_values"
    /\ UNCHANGED <<oversampling, reg_data, ops, exc, cal, data, calls, args,
                   past, ret, sensor, printed>>

(***************************************************************************)
(* extract_values, step by step (lines 363-370).                           *)
(***************************************************************************)
ExtractRawValues ==
    /\ pc = "extract_raw_values"
    /\ LET raw == extract_raw_values(data)
       IN  frame' = [frame EXCEPT !.raw_pressure = raw[1],
                                  !.raw_temperature = raw[2],
                                  !.raw_humidity = raw[3]]
    /\ pc' = "improve_temperature_measurement"
    /\ UNCHANGED <<oversampling, reg_data, ops, exc, cal, data, calls, args,
                   past, ret, sensor, printed>>

\* lines 365-366
ImproveTemperature ==
    /\ pc = "improve_temperature_measurement"
    /\ LET r == improve_temperature_measurement(frame.raw_temperature,
                                                frame.dig_t)
       IN  frame' = [frame EXCEPT !.temperature = r.temperature,
                                  !.t_fine = r.t_fine]
    /\ calls' = Append(calls, [fn |-> "improve_temperature_measurement",
                               raw |-> frame.raw_temperature,
                               dig |-> frame.dig_t])
    /\ pc' = "improve_pressure_measurement"
    /\ UNCHANGED <<oversampling, reg_data, ops, exc, cal, data, args, past,
                   ret, sensor, printed>>

\* line 367
ImprovePressure ==
    /\ pc = "improve_pressure_measurement"
    /\ LET r == improve_pressure_measurement(frame.raw_pressure, frame.dig_p,
                                             frame.t_fine)
       IN  /\ frame' = [frame EXCEPT !.pressure = r.pressure]
           /\ IF r.exc = "none"
              THEN pc' = "improve_humidity_measurement" /\ exc' = exc
              ELSE Raise(r.exc)
    /\ calls' = Append(calls, [fn |-> "improve_pressure_measurement",
                               raw |-> frame.raw_pressure,
                               dig |-> frame.dig_p,
                               t_fine |-> frame.t_fine])
    /\ UNCHANGED <<oversampling, reg_data, ops, cal, data, args, past, ret,
                   sensor, printed>>

\* an extract_values that hands improve_humidity_measurement the temperature
\* where t_fine belongs
ImproveHumidity_temperature ==
    /\ pc = "improve_humidity_measurement"
    /\ frame' = [frame EXCEPT !.humidity =
                   improve_humidity_measurement(frame.raw_humidity,
                                                frame.dig_h,
                                                frame.temperature)]
    /\ calls' = Append(calls, [fn |-> "improve_humidity_measurement",
                               raw |-> frame.raw_humidity,
                               dig |-> frame.dig_h,
                               t_fine |-> frame.temperature])
    /\ pc' = "extract_values_return"
    /\ UNCHANGED <<oversampling, reg_data, ops, exc, cal, data, args, past,
                   ret, sensor, printed>>

\* line 368
ImproveHumidity ==
    /\ pc = "improve_humidity_measurement"
    /\ frame' = [frame EXCEPT !.humidity =
                   improve_humidity_measurement(frame.raw_humidity,
                                                frame.dig_h, frame.t_fine)]
    /\ calls' = Append(calls, [fn |-> "improve_humidity_measurement",
                               raw |-> frame.raw_humidity,
                               dig |-> frame.dig_h,
                               t_fine |-> frame.t_fine])
    /\ pc' = "extract_values_return"
    /\ UNCHANGED <<oversampling, reg_data, ops, exc, cal, data, args, past,
                   ret, sensor, printed>>

\* line 370: back to read_sensor, or to the caller of extract_values
ExtractValuesReturn ==
    /\ pc = "extract_values_return"
    /\ ret' = <<frame.temperature, frame.pressure, frame.humidity>>
    /\ pc' = IF args.fn = "extract_values" THEN "returned"
             ELSE "read_sensor_return"
    /\ UNCHANGED <<oversampling, reg_data, ops, exc, cal, data, frame, calls,
                   args, past, sensor, printed>>

\* read_sensor, lines 436-440
\* a read_sensor that scales the humidity like the other two
ReadSensorReturn_scaled ==
    /\ pc = "read_sensor_return"
    /\ ret' = [temperature |-> QDiv(QOf(ret[1]), QOf(100)),
               pressure |-> QDiv(ret[2], QOf(100)),
               humidity |-> QDiv(ret[3], QOf(100))]
    /\ pc' = IF args.fn = "read_sensor" THEN "returned" ELSE "get_data"
    /\ UNCHANGED <<oversampling, reg_data, ops, exc, cal, data, frame, calls,
                   args, past, sensor, printed>>

ReadSensorReturn ==
    /\ pc = "read_sensor_return"
    /\ ret' = [temperature |-> QDiv(QOf(ret[1]), QOf(100)),
               pressure |-> QDiv(ret[2], QOf(100)),
               humidity |-> ret[3]]
    /\ pc' = IF args.fn = "read_sensor" THEN "returned" ELSE "get_data"
    /\ UNCHANGED <<oversampling, reg_data, ops, exc, cal, data, frame, calls,
                   args, past, sensor, printed>>

(***************************************************************************)
(* Spec: one invocation of read_sensor, for every argument in              *)
(* ReadSensorArgs, against a bus whose every call may fail.                *)
(***************************************************************************)
MaxOversampling == 3

\* the values a key may hold: the small ones, 7, the largest that fits the
\* three bits the control register gives a value, and 8, which does not
OversamplingValues == (0..MaxOversampling) \cup {7, 8}

ExtraValues == {1, 3}

RequiredKeys == {"temperature", "pressure", "humidity"}

\* dicts with any subset of the required keys, and dicts with all of them
\* and one key more
OversamplingDicts ==
    {Dict(f) : f \in UNION {[keys -> OversamplingValues] :
                              keys \in SUBSET RequiredKeys}}
    \cup
    {Dict([k \in RequiredKeys \cup {"extra"} |->
             IF k = "extra" THEN e ELSE f[k]]) :
       f \in [RequiredKeys -> {1, 2}], e \in ExtraValues}

OversamplingArgs ==
    {None, [kind |-> "str"], [kind |-> "int"]} \cup OversamplingDicts

ReadSensorArgs ==
    [fn : {"read_sensor"}, oversampling : OversamplingArgs,
     reg_data : {DefaultRegData}]
    \cup
    [fn : {"read_sensor"}, oversampling : {None, DefaultOversampling},
     reg_data : {250}]

Init ==
    /\ args \in ReadSensorArgs
    /\ pc = "validate_oversampling"
    /\ oversampling = args.oversampling
    /\ reg_data = args.reg_data
    /\ ops = <<>>
    /\ exc = "none"
    /\ cal = <<>>
    /\ data = <<>>
    /\ frame = EmptyFrame
    /\ calls = <<>>
    /\ ret = None
    /\ past = <<>>
    /\ sensor = None
    /\ printed = <<>>

Next ==
    \/ ValidateOversampling
    \/ WriteHumidity
    \/ WriteControl
    \/ ReadCal1
    \/ ReadCal2
    \/ ReadCal3
    \/ Sleep
    \/ ReadData
    \/ ProcessCalibration
    \/ ExtractRawValues
    \/ ImproveTemperature
    \/ ImprovePressure
    \/ ImproveHumidity
    \/ ExtractValuesReturn
    \/ ReadSensorReturn

Spec == Init /\ [][Next]_vars

(***************************************************************************)
(* SpecRepeat: read_sensor invoked again and again on the same bus.  The   *)
(* module keeps nothing between calls (it has no module-level variable and *)
(* read_sensor no attribute), so an invocation starts from its arguments   *)
(* alone; past records what the bus returned before, for the properties.   *)
(***************************************************************************)
MaxInvocations == 2

RepeatArgs ==
    [fn : {"read_sensor"}, oversampling : {None}, reg_data : {DefaultRegData}]

InvokeAgain ==
    /\ pc \in {"returned", "raised"}
    /\ args.fn = "read_sensor"
    /\ Len(past) + 1 < MaxInvocations
    /\ past' = Append(past, [cal |-> cal, data |-> data])
    /\ args' \in RepeatArgs
    /\ pc' = "validate_oversampling"
    /\ oversampling' = args'.oversampling
    /\ reg_data' = args'.reg_data
    /\ ops' = <<>>
    /\ exc' = "none"
    /\ cal' = <<>>
    /\ data' = <<>>
    /\ frame' = EmptyFrame
    /\ calls' = <<>>
    /\ ret' = None
    /\ UNCHANGED <<sensor, printed>>

NextRepeat ==
    \/ Next
    \/ InvokeAgain

SpecRepeat == Init /\ [][NextRepeat]_vars

(***************************************************************************)
(* SpecExtract: extract_values called on its own, for every argument in    *)
(* ExtractValuesArgs.                                                      *)
(***************************************************************************)
FixtureDigT == <<28256, 26827, 50>>

FixtureDigP == <<37149, -10437, 3024, 9960, -214, -7, 9900, -10230, 4285>>

FixtureDigH == <<75, 385, 0, 268, 50, 30>>

\* the dig_p of test_special_case, with dig_p[0] = 0
SpecialDigP == <<0, 6034, -2009, -3141, 8460, 523, -7938, 6421, -4430>>

ExtractData ==
    BusData \cup {<<76, 60, 0, 129, 49, 128, 94, 110>>,
                  <<0, 0, 0, 0, 0, 0, 0, 0>>,
                  <<255, 255, 255, 255, 255, 255, 255, 255>>}

ExtractValuesArgs ==
    [fn : {"extract_values"},
     data : ExtractData,
     dig_t : {FixtureDigT, <<27504, 26435, -1000>>},
     dig_p : {FixtureDigP, SpecialDigP},
     dig_h : {FixtureDigH, <<75, 385, 0, -2036, 50, -30>>}]

InitExtract ==
    /\ args \in ExtractValuesArgs
    /\ pc = "extract_raw_values"
    /\ data = args.data
    /\ frame = [EmptyFrame EXCEPT !.dig_t = args.dig_t,
                                  !.dig_p = args.dig_p,
                                  !.dig_h = args.dig_h]
    /\ oversampling = None
    /\ reg_data = DefaultRegData
    /\ ops = <<>>
    /\ exc = "none"
    /\ cal = <<>>
    /\ calls = <<>>
    /\ ret = None
    /\ past = <<>>
    /\ sensor = None
    /\ printed = <<>>

NextExtract ==
    \/ ExtractRawValues
    \/ ImproveTemperature
    \/ ImprovePressure
    \/ ImproveHumidity
    \/ ExtractValuesReturn

SpecExtract == InitExtract /\ [][NextExtract]_vars

\* C5: the first compensation call of extract_values is the temperature's,
\* on the raw temperature of this measurement block and this dig_t; the
\* pressure and humidity calls come after it, and the t_fine each is given
\* is the t_fine that call produced.
C5_FineTemperatureFirst ==
    LET raw_temperature == extract_raw_values(args.data)[2]
        t_fine == improve_temperature_measurement(raw_temperature,
                                                  args.dig_t).t_fine
    IN  \A i \in 1..Len(calls) :
          IF i = 1
          THEN /\ calls[i].fn = "improve_temperature_measurement"
               /\ calls[i].raw = raw_temperature
               /\ calls[i].dig = args.dig_t
          ELSE /\ calls[i].fn \in {"improve_pressure_measurement",
                                   "improve_humidity_measurement"}
               /\ calls[i].t_fine = t_fine

C5_Witness ==
    /\ args.fn = "extract_values"
    /\ pc = "returned"
    /\ Len(calls) = 3
    /\ calls[2].fn = "improve_pressure_measurement"
    /\ calls[3].fn = "improve_humidity_measurement"
    /\ calls[3].t_fine = 126227

(***************************************************************************)
(* SpecHumidity: improve_humidity_measurement on every argument in         *)
(* HumidityArgs.                                                           *)
(***************************************************************************)
HumidityArgs ==
    [fn : {"improve_humidity_measurement"},
     raw_humidity : {0, 24185, 32768, 65535},
     dig_h : {FixtureDigH, <<75, 385, 0, -2036, 50, -30>>,
              <<0, -385, 3, 268, -50, 30>>, <<255, 32767, 255, 2047, 2047, 127>>},
     t_fine : {-739664, 0, 76800, 126200, 977692}]

InitPure(inputs) ==
    /\ args \in inputs
    /\ pc = "call"
    /\ data = <<>>
    /\ frame = EmptyFrame
    /\ oversampling = None
    /\ reg_data = DefaultRegData
    /\ ops = <<>>
    /\ exc = "none"
    /\ cal = <<>>
    /\ calls = <<>>
    /\ ret = None
    /\ past = <<>>
    /\ sensor = None
    /\ printed = <<>>

\* the call returns, or raises what the function raised
Return(value, raised) ==
    /\ pc = "call"
    /\ IF raised = "none"
       THEN pc' = "returned" /\ ret' = value /\ exc' = exc
       ELSE Raise(raised) /\ ret' = ret
    /\ UNCHANGED <<oversampling, reg_data, ops, cal, data, frame, calls,
                   args, past, sensor, printed>>

CallImproveHumidity ==
    /\ args.fn = "improve_humidity_measurement"
    /\ Return(improve_humidity_measurement(args.raw_humidity, args.dig_h,
                                           args.t_fine), "none")

InitHumidity == InitPure(HumidityArgs)

SpecHumidity == InitHumidity /\ [][CallImproveHumidity]_vars

\* C8: improve_humidity_measurement returns a value in [0, 100]: 0 when the
\* formula gives less than 0, 100 when it gives more than 100, the formula's
\* value otherwise; it raises nothing.
C8_HumidityClamped ==
    pc # "call" =>
        LET h == HumidityFormula(args.raw_humidity, args.dig_h, args.t_fine)
        IN  /\ pc = "returned"
            /\ ~QLess(ret, QZero)
            /\ ~QLess(QOf(100), ret)
            /\ QLess(h, QZero) => QEq(ret, QZero)
            /\ QLess(QOf(100), h) => QEq(ret, QOf(100))
            /\ (~QLess(h, QZero) /\ ~QLess(QOf(100), h)) => QEq(ret, h)

C8_Witness ==
    /\ pc = "returned"
    /\ args.raw_humidity = 65535
    /\ args.dig_h = FixtureDigH
    /\ args.t_fine = 977692
    /\ QLess(QOf(100), HumidityFormula(65535, FixtureDigH, 977692))
    /\ QEq(ret, QOf(100))

(***************************************************************************)
(* SpecPressure: improve_pressure_measurement on every argument in         *)
(* PressureArgs.  With dig_p = <<5, 16384, 0, ...>> and t_fine = -1969152  *)
(* the final var1 is 0 although dig_p[0] is not.                           *)
(***************************************************************************)
PressureArgs ==
    [fn : {"improve_pressure_measurement"},
     raw_pressure : {0, 312272, 1048575},
     dig_p : {FixtureDigP, SpecialDigP,
              <<5, 16384, 0, 0, 0, 0, 0, 0, 0>>,
              <<0, 0, 0, 0, 0, 0, 0, 0, 0>>},
     t_fine : {-1969152, -739664, -147, 0, 126240, 977692}]

CallImprovePressure ==
    /\ args.fn = "improve_pressure_measurement"
    /\ LET r == improve_pressure_measurement(args.raw_pressure, args.dig_p,
                                             args.t_fine)
       IN  Return(r, r.exc)

InitPressure == InitPure(PressureArgs)

SpecPressure == InitPressure /\ [][CallImprovePressure]_vars

\* C9: improve_pressure_measurement never divides by zero: when the final
\* var1 is 0, as it is whenever dig_p[0] = 0, it returns 0 without dividing
\* by var1; otherwise it divides by a var1 that is not 0.
C9_NoDivisionByZero ==
    pc # "call" =>
        LET var1 == PressureVar1(args.dig_p, args.t_fine)
        IN  /\ pc = "returned"
            /\ exc = "none"
            /\ args.dig_p[1] = 0 => QSign(var1) = 0
            /\ QSign(var1) = 0 => (ret.pressure = QZero /\ ~ret.divided)
            /\ QSign(var1) # 0 => ret.divided

C9_Witness ==
    /\ pc = "returned"
    /\ args.dig_p[1] = 5
    /\ args.t_fine = -1969152
    /\ QSign(PressureVar1(args.dig_p, args.t_fine)) = 0
    /\ ret.pressure = QZero
    /\ ~ret.divided

(***************************************************************************)
(* SpecCalibration: process_calibration_data on the fixture blocks with    *)
(* bytes 3, 4 and 5 of block 3 varied.                                     *)
(***************************************************************************)
ByteSamples == {0, 3, 16, 127, 128, 255}

CalibrationArgs ==
    {[fn |-> "process_calibration_data",
      cal |-> <<FixtureCal1, FixtureCal2,
                [i \in 1..7 |-> IF i = 4 THEN b3
                                ELSE IF i = 5 THEN b4
                                ELSE IF i = 6 THEN b5
                                ELSE FixtureCal3[i]]>>] :
       b3 \in ByteSamples, b4 \in 0..255, b5 \in ByteSamples}

CallProcessCalibration ==
    /\ args.fn = "process_calibration_data"
    /\ Return(process_calibration_data(args.cal), "none")

InitCalibration == InitPure(CalibrationArgs)

SpecCalibration == InitCalibration /\ [][CallProcessCalibration]_vars

\* a byte read as two's complement
Signed8(b) == IF b > 127 THEN b - 256 ELSE b

\* C10: dig_h[3] is signed_8(block3[3]) in bits 11..4 over the low nibble of
\* block3[4]; dig_h[4] is signed_8(block3[5]) in bits 11..4 over the high
\* nibble of block3[4]; both lie in -2048..2047, and the fixture block gives
\* 268 and 50.
C10_InterleavedHumidityFields ==
    pc = "returned" =>
        LET block3 == args.cal[3]
            dig_h  == ret[3]
        IN  /\ dig_h[4] = Signed8(block3[4]) * 16 + (block3[5] % 16)
            /\ dig_h[5] = Signed8(block3[6]) * 16 + (block3[5] \div 16)
            /\ dig_h[4] \in -2048..2047
            /\ dig_h[5] \in -2048..2047
            /\ block3 = FixtureCal3 => (dig_h[4] = 268 /\ dig_h[5] = 50)

C10_Witness ==
    /\ pc = "returned"
    /\ args.cal[3] = FixtureCal3
    /\ ret[3][4] = 268
    /\ ret[3][5] = 50

\* block 3 with bytes 4 and 5 replaced (bytes 3, 4, 5 are elements 4, 5, 6)
WithBytes45(block3, b4, b5) == [block3 EXCEPT ![5] = b4, ![6] = b5]

\* block 3 with bytes 3 and 4 replaced
WithBytes34(block3, b3, b4) == [block3 EXCEPT ![4] = b3, ![5] = b4]

\* the nibbles and bytes the other block of C11 is given
NibbleSamples == {0, 7, 8, 15}

OtherBytes == {0, 127, 128, 255}

\* C11: the two interleaved humidity fields are decoded independently.  A
\* block 3 that agrees with the one parsed on byte 3 and on the low nibble
\* of byte 4 gives the same dig_h[3], whatever its byte 5 and the high nibble
\* of its byte 4; one that agrees on byte 5 and on the high nibble of byte 4
\* gives the same dig_h[4], whatever its byte 3 and the low nibble of its
\* byte 4.
C11_FieldsIndependent ==
    pc = "returned" =>
        LET block3 == args.cal[3]
            low    == block3[5] % 16
            high   == block3[5] \div 16
        IN  /\ \A nibble \in NibbleSamples, b5 \in OtherBytes :
                 LET other == WithBytes45(block3, nibble * 16 + low, b5)
                 IN  process_calibration_data(
                         <<args.cal[1], args.cal[2], other>>)[3][4]
                     = ret[3][4]
            /\ \A nibble \in NibbleSamples, b3 \in OtherBytes :
                 LET other == WithBytes34(block3, b3, high * 16 + nibble)
                 IN  process_calibration_data(
                         <<args.cal[1], args.cal[2], other>>)[3][5]
                     = ret[3][5]

\* the fixture block parsed, and a block that differs from it in byte 5 and
\* in the high nibble of byte 4 giving the same dig_h[3]
C11_Witness ==
    /\ pc = "returned"
    /\ args.cal[3] = FixtureCal3
    /\ ret[3][4] = 268
    /\ WithBytes45(FixtureCal3, 252, 255) # FixtureCal3
    /\ process_calibration_data(
           <<FixtureCal1, FixtureCal2,
             WithBytes45(FixtureCal3, 252, 255)>>)[3][4] = 268

(***************************************************************************)
(* SpecBlock1: process_calibration_data on the fixture blocks, and on the  *)
(* fixture with one 16-bit field of block 1 replaced.                      *)
(***************************************************************************)
\* block 1 with the field at offset 2 * k replaced by the bytes lo, hi
WithField(block1, k, lo, hi) ==
    [block1 EXCEPT ![2 * k + 1] = lo, ![2 * k + 2] = hi]

Block1Args ==
    {[fn |-> "process_calibration_data",
      cal |-> <<FixtureCal1, FixtureCal2, FixtureCal3>>]}
    \cup
    {[fn |-> "process_calibration_data",
      cal |-> <<WithField(FixtureCal1, k, lo, hi), FixtureCal2,
                FixtureCal3>>] :
       k \in 0..11, lo \in ByteSamples, hi \in ByteSamples}

InitBlock1 == InitPure(Block1Args)

SpecBlock1 == InitBlock1 /\ [][CallProcessCalibration]_vars

\* the bytes at offsets i, i + 1 as a little-endian number
Unsigned16(block, i) == block[i + 1] + 256 * block[i + 2]

\* the same 16 bits read as two's complement
Signed16(block, i) ==
    IF Unsigned16(block, i) > 32767 THEN Unsigned16(block, i) - 65536
    ELSE Unsigned16(block, i)

\* C12: process_calibration_data yields dig_t of 3 entries, unsigned at
\* offset 0 and signed at offsets 2 and 4 of block 1; dig_p of 9 entries at
\* offsets 6, 8, ..., 22, unsigned at offset 6 and signed elsewhere; dig_h of
\* 6 entries; and for the fixture blocks the values of the repository's test.
C12_CalibrationLayout ==
    pc = "returned" =>
        LET block1 == args.cal[1]
            dig_t  == ret[1]
            dig_p  == ret[2]
            dig_h  == ret[3]
        IN  /\ dig_t = <<Unsigned16(block1, 0), Signed16(block1, 2),
                         Signed16(block1, 4)>>
            /\ Len(dig_p) = 9
            /\ dig_p[1] = Unsigned16(block1, 6)
            /\ \A k \in 2..9 : dig_p[k] = Signed16(block1, 4 + 2 * k)
            /\ Len(dig_h) = 6
            /\ args.cal = <<FixtureCal1, FixtureCal2, FixtureCal3>> =>
                 /\ dig_t = <<28256, 26827, 50>>
                 /\ dig_p = <<37149, -10437, 3024, 9960, -214, -7, 9900,
                              -10230, 4285>>
                 /\ dig_h = <<75, 385, 0, 268, 50, 30>>

C12_Witness ==
    /\ pc = "returned"
    /\ args.cal = <<FixtureCal1, FixtureCal2, FixtureCal3>>
    /\ ret[2][1] = 37149
    /\ ret[2][2] = -10437

(***************************************************************************)
(* SpecBytes: the four byte extractors, on every pair of bytes for the     *)
(* 16-bit ones, on every byte for the 8-bit ones, and on short buffers     *)
(* with indices inside and outside them.                                   *)
(***************************************************************************)
Bytes == 0..255

BoundsBuffers == {<<>>, <<129>>, <<129, 1>>, <<129, 1, 0>>}

IndexSamples == -4..4

\* the arguments of the calls, for bytes drawn from the set bytes
ExtractorArgs(bytes) ==
    {[fn |-> f, data |-> <<lo, hi>>, index |-> 0] :
       f \in {"get_short", "get_unsigned_short"}, lo \in bytes, hi \in bytes}
    \cup
    {[fn |-> f, data |-> <<b>>, index |-> 0] :
       f \in {"get_character", "get_unsigned_character"}, b \in bytes}
    \cup
    [fn : ExtractorNames, data : BoundsBuffers, index : IndexSamples]

CallExtractor ==
    /\ args.fn \in ExtractorNames
    /\ LET raised == ExtractorRaises(args.fn, args.data, args.index)
       IN  Return(IF raised = "none"
                  THEN Extractor(args.fn, args.data, args.index)
                  ELSE None,
                  raised)

InitBytes == InitPure(ExtractorArgs(Bytes))

SpecBytes == InitBytes /\ [][CallExtractor]_vars

\* the index is one the field fits at, counted from the start of the buffer
FitsAt(width) == args.index \in 0..(Len(args.data) - width)

\* C13: for bytes lo = buf[i], hi = buf[i+1], get_unsigned_short returns
\* lo + 256 * hi, in 0..65535; get_short returns that number when it is at
\* most 32767 and that number minus 65536 when it is above, so it is always
\* in -32768..32767.
C13_ShortsAgreeUpToWrap ==
    (pc # "call" /\ args.fn \in {"get_short", "get_unsigned_short"}
     /\ FitsAt(2)) =>
        LET lo == args.data[args.index + 1]
            hi == args.data[args.index + 2]
            u  == lo + 256 * hi
        IN  /\ pc = "returned"
            /\ u \in 0..65535
            /\ args.fn = "get_unsigned_short" => ret = u
            /\ args.fn = "get_short" =>
                 /\ ret = IF u > 32767 THEN u - 65536 ELSE u
                 /\ ret \in -32768..32767

C13_Witness ==
    /\ pc = "returned"
    /\ args.fn = "get_short"
    /\ args.data = <<255, 128>>
    /\ args.index = 0
    /\ ret = 33023 - 65536

\* C14: for a byte b = buf[i], get_unsigned_character returns b, in 0..255;
\* get_character returns b when b <= 127 and b - 256 when b > 127, in
\* -128..127; 129 is -127 signed and 129 unsigned.
C14_Characters ==
    (pc # "call" /\ args.fn \in {"get_character", "get_unsigned_character"}
     /\ FitsAt(1)) =>
        LET b == args.data[args.index + 1]
        IN  /\ pc = "returned"
            /\ args.fn = "get_unsigned_character" =>
                 /\ ret = b
                 /\ ret \in 0..255
                 /\ b = 129 => ret = 129
            /\ args.fn = "get_character" =>
                 /\ ret = IF b > 127 THEN b - 256 ELSE b
                 /\ ret \in -128..127
                 /\ b = 129 => ret = -127

C14_Witness ==
    /\ pc = "returned"
    /\ args.fn = "get_character"
    /\ args.data = <<128>>
    /\ ret = -128

\* C15 (as claimed): a call fails with IndexError and returns nothing
\* exactly when its index is outside 0..len-1 (8-bit extractors) or outside
\* 0..len-2 (16-bit extractors), negative indices included.
C15_OutOfRangeFails ==
    pc # "call" =>
        LET width == IF args.fn \in {"get_short", "get_unsigned_short"}
                     THEN 2 ELSE 1
        IN  IF FitsAt(width)
            THEN pc = "returned" /\ exc = "none"
            ELSE pc = "raised" /\ exc = "IndexError" /\ ret = None

(***************************************************************************)
(* SpecRaw: extract_raw_values on the block of the repository's test, and  *)
(* on that block with the bytes of one field replaced.                     *)
(***************************************************************************)
TestBlock == <<76, 60, 0, 129, 49, 128, 94, 110>>

\* the block with bytes i, i + 1, i + 2 replaced
WithTriple(block, i, a, b, c) ==
    [block EXCEPT ![i + 1] = a, ![i + 2] = b, ![i + 3] = c]

RawBlocks ==
    {TestBlock}
    \cup {WithTriple(TestBlock, i, a, b, c) :
            i \in {0, 3}, a \in ByteSamples, b \in ByteSamples,
            c \in ByteSamples}
    \cup {[TestBlock EXCEPT ![7] = a, ![8] = b] :
            a \in ByteSamples, b \in ByteSamples}

RawArgs == [fn : {"extract_raw_values"}, data : RawBlocks]

CallExtractRawValues ==
    /\ args.fn = "extract_raw_values"
    /\ Return(extract_raw_values(args.data), "none")

InitRaw == InitPure(RawArgs)

SpecRaw == InitRaw /\ [][CallExtractRawValues]_vars

\* C16: extract_raw_values returns, in this order, the raw pressure, the
\* raw temperature and the raw humidity: b0, b1 and the high nibble of b2
\* packed into 20 bits, the same of b3, b4, b5, and b6, b7 packed into 16
\* bits; the first two are in 0..2^20-1, the third in 0..65535; the test
\* block gives (312256, 529176, 24174).
C16_RawValues ==
    pc = "returned" =>
        LET b == args.data
        IN  /\ ret = <<b[1] * 4096 + b[2] * 16 + (b[3] \div 16),
                       b[4] * 4096 + b[5] * 16 + (b[6] \div 16),
                       b[7] * 256 + b[8]>>
            /\ ret[1] \in 0..1048575
            /\ ret[2] \in 0..1048575
            /\ ret[3] \in 0..65535
            /\ b = TestBlock => ret = <<312256, 529176, 24174>>

C16_Witness ==
    /\ pc = "returned"
    /\ args.data = WithTriple(TestBlock, 0, 255, 255, 255)
    /\ ret = <<1048575, 529176, 24174>>

(***************************************************************************)
(* SpecTemperature: improve_temperature_measurement on raw readings and    *)
(* coefficients at the ends of their ranges and in between.                *)
(***************************************************************************)
TemperatureArgs ==
    [fn : {"improve_temperature_measurement"},
     temp_raw : {0, 1, 15, 529168, 529176, 1048575},
     dig_t : {<<d0, d1, d2>> :
                d0 \in {0, 28256, 65535},
                d1 \in {-32768, -1, 0, 26827, 32767},
                d2 \in {-32768, -1000, 0, 50, 32767}}]

CallImproveTemperature ==
    /\ args.fn = "improve_temperature_measurement"
    /\ Return(improve_temperature_measurement(args.temp_raw, args.dig_t),
              "none")

InitTemperature == InitPure(TemperatureArgs)

SpecTemperature == InitTemperature /\ [][CallImproveTemperature]_vars

\* v is (a * b) >> n for a floor shift on unbounded integers: a * b - v * 2^n
\* is in 0..2^n - 1, the product computed exactly
IsFloorShr(v, a, b, n) ==
    LET rest == QSub(QMul(QOf(a), QOf(b)), QMul(QOf(v), QOf(Pow2(n))))
    IN  ~QLess(rest, QZero) /\ QLess(rest, QOf(Pow2(n)))

\* C17: improve_temperature_measurement returns fine = v1 + v3 and
\* temperature = (fine * 5 + 128) >> 8, an integer, where
\* v1 = (((raw >> 3) - (d0 << 1)) * d1) >> 11, v2 = ((raw >> 4) - d0)^2,
\* v3 = ((v2 >> 12) * d2) >> 14 and every >> rounds towards minus infinity;
\* raw = 529168 with the fixture coefficients gives 2465 and 126213.
C17_TemperatureFormula ==
    pc = "returned" =>
        LET raw == args.temp_raw
            d0  == args.dig_t[1]
            d1  == args.dig_t[2]
            d2  == args.dig_t[3]
            a   == (raw \div 8) - 2 * d0
            x   == (raw \div 16) - d0
        IN  \E v1 \in {MulShr(a, d1, 11)}, w \in {MulShr(x, x, 12)} :
              \E v3 \in {MulShr(w, d2, 14)} :
                /\ IsFloorShr(v1, a, d1, 11)
                /\ IsFloorShr(w, x, x, 12)
                /\ IsFloorShr(v3, w, d2, 14)
                /\ ret.t_fine = v1 + v3
                /\ ret.temperature \in Int
                /\ 256 * ret.temperature <= ret.t_fine * 5 + 128
                /\ ret.t_fine * 5 + 128 < 256 * (ret.temperature + 1)
                /\ (raw = 529168 /\ args.dig_t = FixtureDigT) =>
                     (ret.temperature = 2465 /\ ret.t_fine = 126213)

\* a negative product under the first shift, and one that does not divide
C17_Witness ==
    /\ pc = "returned"
    /\ args.temp_raw = 15
    /\ args.dig_t = <<65535, 32767, 50>>
    /\ ret.t_fine < 0
    /\ ~IsFloorShr(-MulShr(131069, 32767, 11), -131069, 32767, 11)

(***************************************************************************)
(* Properties of the register protocol (Spec).                             *)
(***************************************************************************)
Failed(op) == op.op # "sleep" /\ ~op.ok

NoFault == \A i \in 1..Len(ops) : ~Failed(ops[i])

\* what kind of operation it is, where, and how long: not the value written
\* nor the time slept
Shape(op) ==
    IF op.op = "sleep" THEN <<"sleep">>
    ELSE IF op.op = "write_byte_data" THEN <<"write", op.register>>
    ELSE <<"read", op.register, op.length>>

ProtocolShape(reg) ==
    <<  <<"write", 242>>, <<"write", 244>>, <<"read", 136, 24>>,
        <<"read", 161, 1>>, <<"read", 225, 7>>, <<"sleep">>,
        <<"read", reg, 8>>  >>

AfterReadRawSensor ==
    pc \in {"process_calibration_data", "extract_raw_values",
            "improve_temperature_measurement", "improve_pressure_measurement",
            "improve_humidity_measurement", "extract_values_return",
            "read_sensor_return", "returned"}

HasRequiredKeys(o) == o.kind = "dict" /\ RequiredKeys \subseteq DOMAIN o.items

\* C1: with the three keys present and a bus that never faults, the
\* operations issued so far are always the first ones of: write 0xF2, write
\* 0xF4, read 24 at 0x88, read 1 at 0xA1, read 7 at 0xE1, sleep, read 8 at
\* reg_data; and once read_raw_sensor has returned they are all seven.
C1_ProtocolOrder ==
    (HasRequiredKeys(oversampling) /\ NoFault) =>
        /\ Len(ops) <= 7
        /\ \A i \in 1..Len(ops) :
             Shape(ops[i]) = ProtocolShape(args.reg_data)[i]
        /\ AfterReadRawSensor => Len(ops) = 7

C1_Witness ==
    /\ pc = "returned"
    /\ exc = "none"
    /\ Len(ops) = 7
    /\ args.reg_data = 250

\* C2 (as claimed): a mapping lacking a required key makes read_sensor fail
\* with KeyError, and when it fails no bus write and no bus read has been
\* issued.
C2_KeyErrorBeforeBusIO ==
    (args.oversampling.kind = "dict" /\ ~HasRequiredKeys(args.oversampling)
     /\ pc = "raised" /\ exc = "KeyError")
        => ops = <<>>

\* C3: an oversampling argument that is neither None nor a dict makes
\* read_sensor raise TypeError, with no bus operation issued and nothing
\* returned.
C3_NonMappingTypeError ==
    args.oversampling.kind \notin {"None", "dict"} =>
        /\ pc \in {"validate_oversampling", "raised"}
        /\ pc = "raised" => exc = "TypeError"
        /\ ops = <<>>
        /\ ret = None

C3_Witness ==
    /\ args.oversampling.kind = "str"
    /\ pc = "raised"
    /\ exc = "TypeError"
    /\ ops = <<>>

\* C4: a bus operation that fails is the last one issued, the OSError
\* reaches the caller and nothing is returned; no operation is issued twice.
C4_FaultAborts ==
    /\ \A i \in 1..Len(ops) :
         Failed(ops[i]) =>
            /\ i = Len(ops)
            /\ pc = "raised"
            /\ exc = "OSError"
            /\ ret = None
    /\ \A i, j \in 1..Len(ops) : i # j => Shape(ops[i]) # Shape(ops[j])
    /\ Len(ops) <= 7

C4_Witness ==
    /\ pc = "raised"
    /\ exc = "OSError"
    /\ Len(ops) = 4
    /\ Failed(ops[4])
    /\ ret = None

\* bit i of a natural number
Bit(x, i) == (x \div Pow2(i)) % 2

\* C6: the value written to 0xF2 is oversampling.humidity; the value written
\* to 0xF4 has, bit by bit, the bits of temperature << 5, of pressure << 2
\* and of 1; for 2/2/2 the two values are 2 and 73.
C6_ControlValues ==
    \A i \in 1..Len(ops) :
        ops[i].op = "write_byte_data" =>
            LET t == oversampling.items["temperature"]
                p == oversampling.items["pressure"]
                h == oversampling.items["humidity"]
                v == ops[i].value
            IN  /\ ops[i].register = 242 => v = h
                /\ ops[i].register = 244 =>
                     /\ v \in 0..65535
                     /\ \A b \in 0..15 :
                          Bit(v, b) = IF Bit(t * 32, b) = 1
                                         \/ Bit(p * 4, b) = 1
                                         \/ Bit(1, b) = 1
                                      THEN 1 ELSE 0
                     /\ (t = 2 /\ p = 2) => v = 73
                /\ (ops[i].register = 242 /\ h = 2) => v = 2

C6_Witness ==
    /\ pc = "returned"
    /\ args.oversampling = DefaultOversampling
    /\ ops[1].value = 2
    /\ ops[2].value = 73

\* C7 (as claimed): the sleep lasts 2.4 + 2.3 * (temperature + pressure +
\* humidity) milliseconds, whatever else the mapping holds.
C7_WaitFromThreeKeys ==
    \A i \in 1..Len(ops) :
        ops[i].op = "sleep" =>
            ops[i].wait = 24 + 23 * (oversampling.items["temperature"]
                                     + oversampling.items["pressure"]
                                     + oversampling.items["humidity"])

\* C18: a read_sensor that returns, returns a mapping with exactly the keys
\* temperature, pressure and humidity: the compensated temperature and the
\* compensated pressure of this invocation's blocks, each divided by 100,
\* and the compensated, clamped humidity as it is.  The blocks of the test
\* give 24.65, 969.1056... and 41.0732...
C18_ReadingScaled ==
    pc = "returned" =>
        LET dig == process_calibration_data(cal)
            raw == extract_raw_values(data)
            t   == improve_temperature_measurement(raw[2], dig[1])
            p   == improve_pressure_measurement(raw[1], dig[2], t.t_fine)
            h   == improve_humidity_measurement(raw[3], dig[3], t.t_fine)
        IN  /\ DOMAIN ret = {"temperature", "pressure", "humidity"}
            /\ QEq(QMul(ret.temperature, QOf(100)), QOf(t.temperature))
            /\ QEq(QMul(ret.pressure, QOf(100)), p.pressure)
            /\ QEq(ret.humidity, h)
            /\ ~QLess(ret.humidity, QZero)
            /\ ~QLess(QOf(100), ret.humidity)
            /\ (cal = <<FixtureCal1, FixtureCal2, FixtureCal3>>
                /\ data = <<76, 60, 128, 129, 49, 128, 94, 120>>) =>
                 /\ QEq(ret.temperature, QDiv(QOf(2465), QOf(100)))
                 /\ QLess(QDiv(QOf(9691056), QOf(10000)), ret.pressure)
                 /\ QLess(ret.pressure, QDiv(QOf(9691057), QOf(10000)))
                 /\ QLess(QDiv(QOf(410732), QOf(10000)), ret.humidity)
                 /\ QLess(ret.humidity, QDiv(QOf(410733), QOf(10000)))

C18_Witness ==
    /\ pc = "returned"
    /\ args.fn = "read_sensor"
    /\ cal = <<FixtureCal1, FixtureCal2, FixtureCal3>>
    /\ data = <<76, 60, 128, 129, 49, 128, 94, 120>>
    /\ QEq(ret.temperature, QDiv(QOf(2465), QOf(100)))
    /\ QLess(QOf(41), ret.humidity)

\* C19: read_sensor called with oversampling None and reg_data left at its
\* default goes on as a call with {temperature: 2, pressure: 2, humidity: 2}
\* and reg_data 0xF7 does: from validate_oversampling on the mapping it works
\* with is that one, it writes 2 to 0xF2 and 73 to 0xF4, and the 8-byte
\* measurement block is read at 0xF7.
C19_Defaults ==
    (args.oversampling.kind = "None" /\ args.reg_data = 247) =>
        /\ pc # "validate_oversampling" =>
             /\ oversampling.kind = "dict"
             /\ DOMAIN oversampling.items
                  = {"temperature", "pressure", "humidity"}
             /\ \A k \in DOMAIN oversampling.items :
                  oversampling.items[k] = 2
        /\ reg_data = 247
        /\ \A i \in 1..Len(ops) :
             /\ (ops[i].op = "write_byte_data" /\ ops[i].register = 242)
                   => ops[i].value = 2
             /\ (ops[i].op = "write_byte_data" /\ ops[i].register = 244)
                   => ops[i].value = 73
             /\ (ops[i].op = "read_i2c_block_data" /\ ops[i].length = 8)
                   => ops[i].register = 247
             /\ ops[i].op = "sleep" => ops[i].wait = 24 + 23 * 6

C19_Witness ==
    /\ pc = "returned"
    /\ args.oversampling.kind = "None"
    /\ args.reg_data = 247
    /\ Len(ops) = 7
    /\ ops[1].value = 2
    /\ ops[2].value = 73
    /\ ops[7].register = 247
    /\ ops[7].length = 8

\* the read operations that succeeded, by register
ReadsDone == {ops[i].register : i \in {j \in 1..Len(ops) :
                 ops[j].op = "read_i2c_block_data" /\ ops[j].ok}}

\* C20: read_sensor keeps no state between invocations.  Every invocation
\* that gets past read_raw_sensor has read the three calibration blocks
\* itself; its coefficients are those of the blocks it read, and its Reading
\* is a function of the blocks it read alone, whatever the bus returned in
\* the invocations before it.
C20_NoStateBetweenInvocations ==
    /\ AfterReadRawSensor =>
         /\ {136, 161, 225} \subseteq ReadsDone
         /\ Len(cal) = 3
    /\ frame.dig_t # None =>
         <<frame.dig_t, frame.dig_p, frame.dig_h>>
            = process_calibration_data(cal)
    /\ (pc = "returned" /\ args.fn = "read_sensor") =>
         LET dig == process_calibration_data(cal)
             raw == extract_raw_values(data)
             t   == improve_temperature_measurement(raw[2], dig[1])
             p   == improve_pressure_measurement(raw[1], dig[2], t.t_fine)
             h   == improve_humidity_measurement(raw[3], dig[3], t.t_fine)
         IN  /\ QEq(ret.temperature, QDiv(QOf(t.temperature), QOf(100)))
             /\ QEq(ret.pressure, QDiv(p.pressure, QOf(100)))
             /\ QEq(ret.humidity, h)

\* a second invocation returned, on a block 3 that differs from the one of
\* the first
C20_Witness ==
    /\ pc = "returned"
    /\ Len(past) = 1
    /\ Len(past[1].cal) = 3
    /\ past[1].cal[3] = OtherCal3
    /\ cal[3] = FixtureCal3
    /\ frame.dig_h = <<75, 385, 0, 268, 50, 30>>

(***************************************************************************)
(* SpecModified: get_modified called on its own, with either accessor, at  *)
(* index 3 and 5, with and without shift, for every byte 4 of block 3.     *)
(***************************************************************************)
ModifiedBytes == {0, 16, 255}

ModifiedArgs ==
    {[fn |-> "get_modified",
      cal |-> <<FixtureCal1, FixtureCal2,
                [FixtureCal3 EXCEPT ![4] = b3, ![5] = b4, ![6] = b5]>>,
      i |-> i, function |-> f, shift |-> s] :
       b3 \in ModifiedBytes, b4 \in Bytes, b5 \in ModifiedBytes,
       i \in {3, 5}, f \in {"get_character", "get_unsigned_character"},
       s \in BOOLEAN}

CallGetModified ==
    /\ args.fn = "get_modified"
    /\ Return(get_modified(args.cal, args.i, args.function, args.shift),
              "none")

InitModified == InitPure(ModifiedArgs)

SpecModified == InitModified /\ [][CallGetModified]_vars

\* the accessor that was not passed
OtherAccessor(function) ==
    IF function = "get_character" THEN "get_unsigned_character"
    ELSE "get_character"

\* C24: get_modified returns what it returns for the other accessor, at
\* index 3 and at index 5, with and without shift, for every byte 4; the
\* fixture gives 268 at index 3 with both.
C24_AccessorIrrelevant ==
    pc = "returned" =>
        /\ ret = get_modified(args.cal, args.i,
                              OtherAccessor(args.function), args.shift)
        /\ (args.cal[3] = FixtureCal3 /\ args.i = 3 /\ ~args.shift)
              => ret = 268

\* a byte 4 that the signed accessor reads as a negative number
C24_Witness ==
    /\ pc = "returned"
    /\ args.function = "get_character"
    /\ args.shift
    /\ args.i = 5
    /\ args.cal[3][5] = 200
    /\ args.cal[3][6] = 0
    /\ get_character(args.cal[3], 4) = -56
    /\ ret = 12

\* C29: the oversampling values are not range-checked.  The value written
\* to 0xF4 is a byte with the temperature value in bits 7..5, the pressure
\* value in bits 4..2 and 01 in bits 1..0 exactly when both values are in
\* 0..7; with a temperature value of 8 or more it exceeds 255, and with a
\* pressure value of 8 or more bits of it lie in the temperature field.
C29_ControlNotRangeChecked ==
    \A i \in 1..Len(ops) :
        (ops[i].op = "write_byte_data" /\ ops[i].register = 244) =>
            LET t == oversampling.items["temperature"]
                p == oversampling.items["pressure"]
                v == ops[i].value
            IN  /\ (t \in 0..7 /\ p \in 0..7)
                     <=> (/\ v \in 0..255
                          /\ v \div 32 = t
                          /\ (v \div 4) % 8 = p
                          /\ v % 4 = 1)
                /\ t >= 8 => v > 255
                /\ p >= 8 =>
                     /\ (p * 4) \div 32 > 0
                     /\ \A b \in 5..15 : Bit(p * 4, b) = 1 => Bit(v, b) = 1

\* a temperature value of 8 written as 257
C29_Witness ==
    /\ Len(ops) >= 2
    /\ ops[2].op = "write_byte_data"
    /\ ops[2].register = 244
    /\ oversampling.items["temperature"] = 8
    /\ oversampling.items["pressure"] = 0
    /\ ops[2].value = 257

(***************************************************************************)
(* Raspberry Pi detection (src/bme280pi/raspberry_pi_version.py).  A line  *)
(* of /proc/cpuinfo is a sequence of pieces of text: the characters the    *)
(* parsing looks at (" ", tab, newline, ":") one by one, every other run   *)
(* of characters as one piece.  A string is the sequence of its pieces.    *)
(***************************************************************************)
get_list_of_revisions ==
    [r \in {"0002", "0003"} |-> "Model B R1"]
    @@ [r \in {"0004", "0005", "0006", "000d", "000e", "000f"}
          |-> "Model B R2"]
    @@ [r \in {"0007", "0008", "0009"} |-> "Model A"]
    @@ ("0010" :> "Model B+") @@ ("0011" :> "Compute Module")
    @@ ("0012" :> "Model A+")
    @@ [r \in {"a01041", "a21041"} |-> "Pi 2 Model B"]
    @@ [r \in {"900092", "900093"} |-> "Pi Zero"]
    @@ [r \in {"a02082", "a22082"} |-> "Pi 3 Model B"]
    @@ ("9000c1" :> "Pi Zero W") @@ ("c03111" :> "Pi 4 Model B")
    @@ ("abcdef" :> "TestModel") @@ ("0000" :> "Unknown")

Whitespace == {" ", "\t", "\n"}

\* line.rstrip()
RECURSIVE rstrip(_)
rstrip(line) ==
    IF line # <<>> /\ line[Len(line)] \in Whitespace
    THEN rstrip(SubSeq(line, 1, Len(line) - 1))
    ELSE line

IsSpace(c) == c = " "

\* line.replace(" ", "")
replace_spaces(line) == SelectSeq(line, LAMBDA c : ~IsSpace(c))

\* line.split(":"): the strings between the colons
RECURSIVE split(_)
split(line) ==
    IF \A i \in 1..Len(line) : line[i] # ":" THEN <<line>>
    ELSE LET i == CHOOSE k \in 1..Len(line) :
                    line[k] = ":" /\ \A j \in 1..(k - 1) : line[j] # ":"
         IN  <<SubSeq(line, 1, i - 1)>>
             \o split(SubSeq(line, i + 1, Len(line)))

\* line.find("Revision") >= 0
HasRevision(line) == \E i \in 1..Len(line) : line[i] = "Revision"

\* revision in known_revisions, for a revision that is a string
Known(revision) ==
    Len(revision) = 1 /\ revision[1] \in DOMAIN get_list_of_revisions

\* the loop of lines 53-55 from line i on: the revision after the last
\* line, or IndexError where a line with "Revision" has no colon
RECURSIVE ScanLines(_, _, _)
ScanLines(cpuinfo, i, revision) ==
    IF i > Len(cpuinfo) THEN [revision |-> revision, exc |-> "none"]
    ELSE IF ~HasRevision(cpuinfo[i])
    THEN ScanLines(cpuinfo, i + 1, revision)
    ELSE LET parts == split(replace_spaces(rstrip(cpuinfo[i])))
         IN  IF Len(parts) < 2
             THEN [revision |-> revision, exc |-> "IndexError"]
             ELSE ScanLines(cpuinfo, i + 1, parts[2])

\* what open("/proc/cpuinfo", "r") gives: the lines of the file, or
\* FileNotFoundError
NoFile == [kind |-> "FileNotFoundError", lines |-> <<>>]

File(lines) == [kind |-> "file", lines |-> lines]

\* a detection that gives up on the table
detect_raspberry_pi_version_unknown(cpuinfo) ==
    [value |-> "Unknown", warned |-> cpuinfo.kind = "FileNotFoundError",
     exc |-> "none"]

\* lines 49-64
detect_raspberry_pi_version(cpuinfo) ==
    IF cpuinfo.kind = "FileNotFoundError"
    THEN [value |-> "Unknown", warned |-> TRUE, exc |-> "none"]
    ELSE LET scan == ScanLines(cpuinfo.lines, 1, <<"0000">>)
         IN  IF scan.exc # "none"
             THEN [value |-> "none", warned |-> FALSE, exc |-> scan.exc]
             ELSE IF Known(scan.revision)
             THEN [value |-> get_list_of_revisions[scan.revision[1]],
                   warned |-> FALSE, exc |-> "none"]
             ELSE [value |-> "Unknown", warned |-> FALSE, exc |-> "none"]

(***************************************************************************)
(* SpecDetect: detect_raspberry_pi_version on a missing /proc/cpuinfo and  *)
(* on files of up to MaxLines lines.                                       *)
(***************************************************************************)
MaxLines == 2

RevisionCodes == DOMAIN get_list_of_revisions \cup {"1000002", "ffffff"}

\* the line as the kernel writes it, and as the repository's test does
CpuinfoLine(code) == <<"Revision", "\t", ":", " ", code, "\n">>

TestLine(code) == <<"Revision", ":", code, "\n">>

RevisionLines ==
    {CpuinfoLine(c) : c \in RevisionCodes}
    \cup {TestLine(c) : c \in {"0002", "0010", "a02082", "ffffff"}}

\* lines without "Revision", and lines with it that are not the kernel's
OtherLines ==
    {<<"processor", "\t", ":", " ", "0", "\n">>,
     <<"CPU", " ", "revision", "\t", ":", " ", "4", "\n">>,
     <<"\n">>}

OddLines ==
    {<<"Revision", "\n">>,
     <<"Revision", ":", "\t", "0010", "\n">>,
     <<"Revision", ":", "0010", ":", "0002", "\n">>}

CpuinfoLines == RevisionLines \cup OtherLines \cup OddLines

DetectArgs(lines) ==
    {[fn |-> "detect_raspberry_pi_version", cpuinfo |-> NoFile]}
    \cup
    {[fn |-> "detect_raspberry_pi_version", cpuinfo |-> File(f)] :
       f \in UNION {[1..n -> lines] : n \in 0..MaxLines}}

CallDetect ==
    /\ args.fn = "detect_raspberry_pi_version"
    /\ LET r == detect_raspberry_pi_version(args.cpuinfo)
       IN  Return([value |-> r.value, warned |-> r.warned], r.exc)

InitDetect == InitPure(DetectArgs(CpuinfoLines))

SpecDetect == InitDetect /\ [][CallDetect]_vars

\* the lines of the file that have "Revision" in them
RevisionLinesOf(f) ==
    {f[i] : i \in {j \in 1..Len(f) : \E k \in 1..Len(f[j]) :
                                       f[j][k] = "Revision"}}

\* C22: detect_raspberry_pi_version returns the name the table gives for
\* the revision code of the file's Revision line, "Unknown" for a code the
\* table does not have and when the file has no Revision line, and
\* "Unknown" with a warning, raising nothing, when the file is not found.
C22_Detection ==
    pc # "call" =>
        LET f    == args.cpuinfo.lines
            revs == RevisionLinesOf(f)
        IN  /\ args.cpuinfo = NoFile =>
                 (pc = "returned" /\ ret.value = "Unknown" /\ ret.warned)
            /\ (args.cpuinfo # NoFile /\ revs = {}) =>
                 (pc = "returned" /\ ret.value = "Unknown" /\ ~ret.warned)
            /\ \A c \in RevisionCodes :
                 (revs # {} /\ revs \subseteq {CpuinfoLine(c), TestLine(c)})
                    => /\ pc = "returned"
                       /\ ~ret.warned
                       /\ ret.value = IF c \in DOMAIN get_list_of_revisions
                                      THEN get_list_of_revisions[c]
                                      ELSE "Unknown"
                       /\ c = "0002" => ret.value = "Model B R1"
                       /\ c = "a02082" => ret.value = "Pi 3 Model B"
                       /\ c = "1000002" => ret.value = "Unknown"

C22_Witness ==
    /\ pc = "returned"
    /\ args.cpuinfo
         = File(<<  <<"processor", "\t", ":", " ", "0", "\n">>,
                    CpuinfoLine("a02082")  >>)
    /\ ret.value = "Pi 3 Model B"
    /\ ~ret.warned

(***************************************************************************)
(* Physics functions (src/bme280pi/physics.py).  A Python value is a       *)
(* record: a number (an int or a finite float) q * e^x with q and x exact  *)
(* rationals (x is 0 but for the results of math.exp), a float NaN, or a   *)
(* value of another type, such as a str.                                   *)
(***************************************************************************)
Num(q) == [kind |-> "num", q |-> q, x |-> QZero]

NaN == [kind |-> "nan", q |-> QZero, x |-> QZero]

Str == [kind |-> "str", q |-> QZero, x |-> QZero]

\* a decimal literal n / d
Dec(n, d) == QDiv(QOf(n), QOf(d))

\* isinstance(value, (float, int))
IsNumber(value) == value.kind \in {"num", "nan"}

\* a < b and a <= b for numbers without exp factor: every comparison with
\* NaN is false
PyLess(a, b) ==
    a.kind = "num" /\ b.kind = "num" /\ QLess(a.q, b.q)

PyLessEq(a, b) ==
    a.kind = "num" /\ b.kind = "num" /\ ~QLess(b.q, a.q)

\* a * b, a / b, a + b, a - b on floats; NaN in gives NaN out
FMul(a, b) ==
    IF a.kind = "nan" \/ b.kind = "nan" THEN NaN
    ELSE [kind |-> "num", q |-> QMul(a.q, b.q), x |-> QAdd(a.x, b.x)]

FDiv(a, b) ==
    IF a.kind = "nan" \/ b.kind = "nan" THEN NaN
    ELSE [kind |-> "num", q |-> QDiv(a.q, b.q), x |-> QSub(a.x, b.x)]

FAdd(a, b) ==
    IF a.kind = "nan" \/ b.kind = "nan" THEN NaN ELSE Num(QAdd(a.q, b.q))

FSub(a, b) ==
    IF a.kind = "nan" \/ b.kind = "nan" THEN NaN ELSE Num(QSub(a.q, b.q))

\* math.exp(a)
FExp(a) ==
    IF a.kind = "nan" THEN NaN
    ELSE [kind |-> "num", q |-> QOf(1), x |-> a.q]

\* lines 44-48: what validate_pressure raises
validate_pressure(pressure) ==
    IF ~IsNumber(pressure) THEN "TypeError"
    ELSE IF PyLessEq(pressure, Num(QOf(0)))
            \/ PyLess(Num(QOf(1100)), pressure)
    THEN "ValueError"
    ELSE "none"

\* lines 68-72
validate_temperature(temperature) ==
    IF ~IsNumber(temperature) THEN "TypeError"
    ELSE IF PyLess(temperature, Num(QOf(-100)))
            \/ PyLess(Num(QOf(100)), temperature)
    THEN "ValueError"
    ELSE "none"

\* lines 90-93
validate_humidity(rel_humidity) ==
    IF ~IsNumber(rel_humidity) THEN "TypeError"
    ELSE IF PyLess(rel_humidity, Num(QOf(0)))
            \/ PyLess(Num(QOf(100)), rel_humidity)
    THEN "ValueError"
    ELSE "none"

\* lines 111-115
validate_height_above_sea_level(height_above_sea_level) ==
    IF ~IsNumber(height_above_sea_level) THEN "TypeError"
    ELSE IF PyLessEq(height_above_sea_level, Num(QOf(0)))
            \/ PyLess(Num(QOf(11000)), height_above_sea_level)
    THEN "ValueError"
    ELSE "none"

\* what a function gives its caller
Raised(e) == [value |-> None, exc |-> e]

Returned(value) == [value |-> value, exc |-> "none"]

\* the first of the exceptions that is raised, or "none"
FirstRaised(excs) ==
    IF \A i \in 1..Len(excs) : excs[i] = "none" THEN "none"
    ELSE excs[CHOOSE i \in 1..Len(excs) :
                excs[i] # "none" /\ \A j \in 1..(i - 1) : excs[j] = "none"]

\* a function body after its validations: it raises what they raised, or
\* returns its value
Validated(raised, value) ==
    IF raised # "none" THEN Raised(raised) ELSE Returned(value)

\* the same for a body that may itself raise
ValidatedThen(raised, result) ==
    IF raised # "none" THEN Raised(raised) ELSE result

\* lines 130-131
pressure_function(pressure) ==
    Validated(validate_pressure(pressure),
              FSub(FAdd(Num(Dec(10016, 10000)),
                        FMul(Num(QMul(Dec(316, 100), Dec(1, 1000000))),
                             pressure)),
                   FDiv(Num(Dec(74, 1000)), pressure)))

\* lines 204-210; 9.8692316931427e-4 is 98692316931427 / 10^17
conversion_factor ==
    ("hPa" :> QOf(1)) @@ ("Pa" :> QOf(100)) @@ ("kPa" :> Dec(1, 10))
    @@ ("atm" :> QDiv(QDiv(QAdd(QMul(QOf(9869231), QOf(10000000)),
                                QOf(6931427)),
                           QOf(1000000000)),
                      QOf(100000000)))
    @@ ("mmHg" :> Dec(750062, 1000000))

\* a convert_pressure that checks the type of the pressure, not its range
convert_pressure_unchecked(pressure, unit) ==
    IF ~IsNumber(pressure) THEN Raised("TypeError")
    ELSE IF unit \in DOMAIN conversion_factor
    THEN Returned(FMul(Num(conversion_factor[unit]), pressure))
    ELSE Raised("Exception")

\* lines 202-215
convert_pressure(pressure, unit) ==
    ValidatedThen(validate_pressure(pressure),
                  IF unit \in DOMAIN conversion_factor
                  THEN Returned(FMul(Num(conversion_factor[unit]), pressure))
                  ELSE Raised("Exception"))

\* lines 236-247
convert_temperature(temperature, unit) ==
    ValidatedThen(
        validate_temperature(temperature),
        IF unit = "C" THEN Returned(temperature)
        ELSE IF unit = "F"
        THEN Returned(FAdd(FMul(temperature, Num(QDiv(QOf(9), QOf(5)))),
                           Num(QOf(32))))
        ELSE IF unit = "K"
        THEN Returned(FAdd(temperature, Num(Dec(27315, 100))))
        ELSE Raised("Exception"))

\* lines 165-179
calculate_abs_humidity(pressure, temperature, rel_humidity) ==
    LET e_w == FMul(Num(Dec(6112, 1000)),
                    FExp(FDiv(FMul(Num(Dec(1762, 100)), temperature),
                              FAdd(Num(Dec(24312, 100)), temperature))))
        e_w_moist == FMul(pressure_function(pressure).value, e_w)
        vapor_pressure == FMul(e_w_moist, rel_humidity)
    IN  Validated(FirstRaised(<<validate_pressure(pressure),
                                validate_temperature(temperature),
                                validate_humidity(rel_humidity)>>),
                  FDiv(vapor_pressure,
                       FMul(Num(Dec(4615, 10)),
                            FAdd(Num(Dec(27315, 100)), temperature))))

\* an int, or a value that is not an int
IntValue(n) == [kind |-> "int", n |-> n]

NotInt(kind) == [kind |-> kind, n |-> 0]

\* round(value, ...): the value rounded, which the model does not compute
Rounded(value, n_digits) ==
    [kind |-> "rounded", value |-> value, n_digits |-> n_digits.n]

\* a rounding that gives 0 for 0
round_to_n_significant_digits_zero(value, n_digits) ==
    IF ~IsNumber(value) THEN Raised("TypeError")
    ELSE IF n_digits.kind # "int" THEN Raised("TypeError")
    ELSE IF ~(n_digits.n > 0) THEN Raised("ValueError")
    ELSE IF value.kind = "nan" THEN Raised("ValueError")
    ELSE Returned(Rounded(value, n_digits))

\* lines 313-320: math.log10(0) raises ValueError (math domain error), and
\* so does math.floor of the NaN that math.log10(NaN) is
round_to_n_significant_digits(value, n_digits) ==
    IF ~IsNumber(value) THEN Raised("TypeError")
    ELSE IF n_digits.kind # "int" THEN Raised("TypeError")
    ELSE IF ~(n_digits.n > 0) THEN Raised("ValueError")
    ELSE IF value.kind = "nan" THEN Raised("ValueError")
    ELSE IF QSign(value.q) = 0 THEN Raised("ValueError")
    ELSE Returned(Rounded(value, n_digits))

(***************************************************************************)
(* SpecPhysics: the validators and the functions that use them, called on  *)
(* values at, inside and outside the limits, on NaN and on a str.          *)
(***************************************************************************)
PressureSamples ==
    {Num(QOf(-1)), Num(QOf(0)), Num(Dec(1, 100)), Num(QOf(1013)),
     Num(QOf(1100)), Num(Dec(11001, 10)), Num(QOf(1200)), NaN, Str}

TemperatureSamples ==
    {Num(QOf(-111)), Num(Dec(-10001, 100)), Num(QOf(-100)), Num(QOf(0)),
     Num(Dec(2465, 100)), Num(QOf(100)), Num(Dec(10001, 100)),
     Num(QOf(111)), NaN, Str}

HumiditySamples ==
    {Num(QOf(-1)), Num(Dec(-1, 100)), Num(QOf(0)), Num(QOf(50)),
     Num(QOf(100)), Num(Dec(10001, 100)), Num(QOf(123)), NaN, Str}

PressureUnits == {"hPa", "Pa", "kPa", "atm", "mmHg", "bar"}

TemperatureUnits == {"C", "F", "K", "R"}

DigitSamples ==
    {IntValue(-1), IntValue(0), IntValue(1), IntValue(4), NotInt("float"),
     NotInt("str")}

PhysicsArgs ==
    [fn : {"validate_pressure", "pressure_function"},
     pressure : PressureSamples]
    \cup [fn : {"validate_temperature"}, temperature : TemperatureSamples]
    \cup [fn : {"validate_humidity"}, rel_humidity : HumiditySamples]
    \cup [fn : {"convert_pressure"}, pressure : PressureSamples,
          unit : PressureUnits]
    \cup [fn : {"convert_temperature"}, temperature : TemperatureSamples,
          unit : TemperatureUnits]
    \cup [fn : {"calculate_abs_humidity"}, pressure : PressureSamples,
          temperature : TemperatureSamples, rel_humidity : HumiditySamples]
    \cup [fn : {"round_to_n_significant_digits"},
          value : TemperatureSamples \cup PressureSamples,
          n_digits : DigitSamples]

\* a validator returns None or raises
CallValidator ==
    /\ args.fn \in {"validate_pressure", "validate_temperature",
                    "validate_humidity"}
    /\ LET raised ==
             IF args.fn = "validate_pressure"
             THEN validate_pressure(args.pressure)
             ELSE IF args.fn = "validate_temperature"
             THEN validate_temperature(args.temperature)
             ELSE validate_humidity(args.rel_humidity)
       IN  Return(None, raised)

CallPhysics ==
    /\ args.fn \in {"pressure_function", "convert_pressure",
                    "convert_temperature", "calculate_abs_humidity",
                    "round_to_n_significant_digits"}
    /\ LET r == IF args.fn = "pressure_function"
                THEN pressure_function(args.pressure)
                ELSE IF args.fn = "convert_pressure"
                THEN convert_pressure(args.pressure, args.unit)
                ELSE IF args.fn = "convert_temperature"
                THEN convert_temperature(args.temperature, args.unit)
                ELSE IF args.fn = "calculate_abs_humidity"
                THEN calculate_abs_humidity(args.pressure, args.temperature,
                                            args.rel_humidity)
                ELSE round_to_n_significant_digits(args.value, args.n_digits)
       IN  Return(r.value, r.exc)

InitPhysics == InitPure(PhysicsArgs)

NextPhysics ==
    \/ CallValidator
    \/ CallPhysics

SpecPhysics == InitPhysics /\ [][NextPhysics]_vars

\* the ranges of C23, for a value that is a number in them
PressureInRange(p) ==
    p.kind = "num" /\ QLess(QZero, p.q) /\ ~QLess(QOf(1100), p.q)

TemperatureInRange(t) ==
    t.kind = "num" /\ ~QLess(t.q, QOf(-100)) /\ ~QLess(QOf(100), t.q)

HumidityInRange(h) ==
    h.kind = "num" /\ ~QLess(h.q, QZero) /\ ~QLess(QOf(100), h.q)

\* what the call ought to do with an argument: nothing, or raise
Verdict(value, inrange) ==
    IF ~IsNumber(value) THEN "TypeError"
    ELSE IF inrange THEN "none" ELSE "ValueError"

\* the verdicts on the quantities the call takes, in the order the code
\* validates them
Verdicts ==
    LET p == IF "pressure" \in DOMAIN args
             THEN <<Verdict(args.pressure, PressureInRange(args.pressure))>>
             ELSE <<>>
        t == IF "temperature" \in DOMAIN args
             THEN <<Verdict(args.temperature,
                            TemperatureInRange(args.temperature))>>
             ELSE <<>>
        h == IF "rel_humidity" \in DOMAIN args
             THEN <<Verdict(args.rel_humidity,
                            HumidityInRange(args.rel_humidity))>>
             ELSE <<>>
    IN  p \o t \o h

\* C23 (as claimed): the validators accept exactly 0 < p <= 1100,
\* -100 <= t <= 100, 0 <= h <= 100, raise ValueError for every other
\* numeric argument and TypeError for a non-numeric one; and every physics
\* function taking such a quantity raises the validator's error, returning
\* nothing, for an input a validator rejects.
C23_ValidatorsExact ==
    (pc # "call" /\ args.fn \in {"validate_pressure", "validate_temperature",
                                 "validate_humidity", "pressure_function",
                                 "convert_pressure", "convert_temperature",
                                 "calculate_abs_humidity"}) =>
        LET verdict == FirstRaised(Verdicts)
        IN  /\ verdict # "none" =>
                 (pc = "raised" /\ exc = verdict /\ ret = None)
            /\ (verdict = "none" /\ args.fn \in {"validate_pressure",
                    "validate_temperature", "validate_humidity"}) =>
                 (pc = "returned" /\ exc = "none")


(***************************************************************************)
(* The Sensor class (sensor.py).  sensor is self: address, bus, chip_id    *)
(* and chip_version.  The bus is the SMBus object: its number and the      *)
(* device behind it, as what each register of the device holds.            *)
(***************************************************************************)
RegId == 208

Device(cal1, cal2, cal3, block) ==
    (RegId :> <<96, 0>>) @@ (136 :> cal1) @@ (161 :> cal2) @@ (225 :> cal3)
    @@ (DefaultRegData :> block)

FixtureData == <<76, 59, 0, 129, 48, 0, 94, 121>>

\* 24.65 C, 969.13 hPa, 41.08 %
NormalDevice == Device(FixtureCal1, FixtureCal2, FixtureCal3, FixtureData)

\* dig_p[0] = 0, so var1 = 0 and the pressure is 0
ZeroPressureDevice ==
    Device([FixtureCal1 EXCEPT ![7] = 0, ![8] = 0], FixtureCal2, FixtureCal3,
           FixtureData)

\* a raw humidity of 0, which the compensation clamps to 0
ZeroHumidityDevice ==
    Device(FixtureCal1, FixtureCal2, FixtureCal3,
           [FixtureData EXCEPT ![7] = 0, ![8] = 0])

\* dig_t[1] = dig_t[2] = 0, so t_fine = 0 and the temperature is 0;
\* 929.36 hPa, 40.98 %
ZeroTemperatureDevice ==
    Device([FixtureCal1 EXCEPT ![3] = 0, ![4] = 0, ![5] = 0, ![6] = 0],
           FixtureCal2, FixtureCal3, FixtureData)

Devices ==
    {NormalDevice, ZeroPressureDevice, ZeroHumidityDevice,
     ZeroTemperatureDevice}

\* a _initialize_bus that always opens bus 1
BusNumber_one(version) == 1

\* lines 210-215: the argument of smbus.SMBus
BusNumber(version) ==
    IF version \in {"Model B R1", "Model A", "Model B+", "Model A+"}
    THEN 0 ELSE 1

\* smbus.SMBus(argument) where the I2C device files in buses exist: the bus
\* object, or FileNotFoundError
SMBus(argument, buses, device) ==
    IF argument \in buses
    THEN Returned([kind |-> "SMBus", number |-> argument, device |-> device])
    ELSE Raised("FileNotFoundError")

\* a _initialize_bus that lets the FileNotFoundError through
initialize_bus_unwrapped(cpuinfo, buses, device) ==
    LET version == detect_raspberry_pi_version(cpuinfo)
    IN  IF version.exc # "none" THEN Raised(version.exc)
        ELSE SMBus(BusNumber(version.value), buses, device)

\* lines 208-229
initialize_bus(cpuinfo, buses, device) ==
    LET version == detect_raspberry_pi_version(cpuinfo)
    IN  IF version.exc # "none" THEN Raised(version.exc)
        ELSE LET bus == SMBus(BusNumber(version.value), buses, device)
             IN  IF bus.exc = "FileNotFoundError"
                 THEN Raised("I2CException")
                 ELSE bus

\* Sensor.__init__, lines 68-69
InitializeBus ==
    /\ pc = "initialize_bus"
    /\ LET bus == initialize_bus(args.cpuinfo, args.buses, args.device)
       IN  IF bus.exc # "none"
           THEN Raise(bus.exc) /\ sensor' = sensor
           ELSE /\ sensor' = [kind |-> "Sensor", address |-> args.address,
                              bus |-> bus.value, chip_id |-> None,
                              chip_version |-> None]
                /\ pc' = "get_info_about_sensor"
                /\ exc' = exc
    /\ UNCHANGED <<oversampling, reg_data, ops, cal, data, frame, calls,
                   args, ret, past, printed>>

\* Sensor.__init__, line 71, with _get_info_about_sensor (lines 239-243);
\* the constructor then returns the object
GetInfoAboutSensor ==
    /\ pc = "get_info_about_sensor"
    /\ \E ok \in BOOLEAN :
         LET info == sensor.bus.device[RegId]
             self == [sensor EXCEPT !.chip_id = info[1],
                                    !.chip_version = info[2]]
         IN  /\ BusCall(ReadOp(RegId, 2, ok), "returned")
             /\ sensor' = IF ok THEN self ELSE sensor
             /\ ret' = IF ok THEN self ELSE ret
    /\ UNCHANGED <<oversampling, reg_data, cal, data, frame, calls, args,
                   past, printed>>


\* physics.py lines 283-297: the validations, and for arguments that pass
\* them the value of line 297, whose power the model does not compute
pressure_at_sea_level(pressure, temperature, height_above_sea_level) ==
    Validated(
        FirstRaised(
            <<validate_pressure(pressure), validate_temperature(temperature),
              validate_height_above_sea_level(height_above_sea_level)>>),
        [kind |-> "pow", pressure |-> pressure, temperature |-> temperature,
         height_above_sea_level |-> height_above_sea_level])

\* the reading get_data returned to the method, as floats
Reading ==
    [temperature |-> Num(ret.temperature), pressure |-> Num(ret.pressure),
     humidity |-> Num(ret.humidity)]

\* a method returns the value or raises
Finish(result) ==
    IF result.exc = "none"
    THEN pc' = "returned" /\ ret' = result.value /\ exc' = exc
    ELSE Raise(result.exc) /\ ret' = None

\* a Sensor that sets the oversampling registers in its first call only
CallMethod_cached(methods) ==
    /\ \/ pc = "returned" /\ args.fn = "Sensor"
       \/ pc \in {"returned", "raised"} /\ args.fn # "Sensor"
    /\ sensor.kind = "Sensor"
    /\ past' = Append(past, [cal |-> cal, data |-> data])
    /\ args' \in methods
    /\ pc' = IF Len(past) = 0 THEN "validate_oversampling" ELSE "read_cal1"
    /\ oversampling' = IF Len(past) = 0 THEN None ELSE DefaultOversampling
    /\ reg_data' = DefaultRegData
    /\ exc' = "none"
    /\ cal' = <<>>
    /\ data' = <<>>
    /\ frame' = EmptyFrame
    /\ calls' = <<>>
    /\ ret' = None
    /\ UNCHANGED <<ops, sensor, printed>>

\* a method call on the constructed Sensor: each starts with get_data
\* (lines 87, 103, 133, 177), which calls read_sensor with the bus and the
\* address alone (lines 155-156).  past gets what the call before read.
CallMethod(methods) ==
    /\ \/ pc = "returned" /\ args.fn = "Sensor"
       \/ pc \in {"returned", "raised"} /\ args.fn # "Sensor"
    /\ sensor.kind = "Sensor"
    /\ past' = Append(past, [cal |-> cal, data |-> data])
    /\ args' \in methods
    /\ pc' = "validate_oversampling"
    /\ oversampling' = None
    /\ reg_data' = DefaultRegData
    /\ exc' = "none"
    /\ cal' = <<>>
    /\ data' = <<>>
    /\ frame' = EmptyFrame
    /\ calls' = <<>>
    /\ ret' = None
    /\ UNCHANGED <<ops, sensor, printed>>

\* get_data, lines 155-156
GetData ==
    /\ pc = "get_data"
    /\ args.fn = "get_data"
    /\ pc' = "returned"
    /\ UNCHANGED <<oversampling, reg_data, ops, exc, cal, data, frame, calls,
                   args, ret, past, sensor, printed>>

\* get_temperature, line 88
GetTemperature ==
    /\ pc = "get_data"
    /\ args.fn = "get_temperature"
    /\ Finish(convert_temperature(Reading.temperature, args.unit))
    /\ UNCHANGED <<oversampling, reg_data, ops, cal, data, frame, calls,
                   args, past, sensor, printed>>

\* get_humidity, lines 105-110
GetHumidity ==
    /\ pc = "get_data"
    /\ args.fn = "get_humidity"
    /\ Finish(IF args.relative THEN Returned(Reading.humidity)
              ELSE calculate_abs_humidity(Reading.pressure,
                                          Reading.temperature,
                                          Reading.humidity))
    /\ UNCHANGED <<oversampling, reg_data, ops, cal, data, frame, calls,
                   args, past, sensor, printed>>

\* lines 140-143: the pressure at sea level, if that did not raise, goes
\* through convert_pressure
ConvertResult(at_sea_level, unit) ==
    IF at_sea_level.exc # "none" THEN at_sea_level
    ELSE convert_pressure(at_sea_level.value, unit)

\* get_pressure that takes a missing height as sea level
get_pressure_lenient(reading, unit, height_above_sea_level, as_pressure_at_sea_level) ==
    IF as_pressure_at_sea_level /\ height_above_sea_level # None
    THEN ConvertResult(pressure_at_sea_level(reading.pressure,
                                             reading.temperature,
                                             height_above_sea_level), unit)
    ELSE convert_pressure(reading.pressure, unit)

\* get_pressure, lines 135-143, after get_data
get_pressure(reading, unit, height_above_sea_level, as_pressure_at_sea_level) ==
    IF as_pressure_at_sea_level
    THEN IF height_above_sea_level = None THEN Raised("ValueError")
         ELSE ConvertResult(pressure_at_sea_level(reading.pressure,
                                                  reading.temperature,
                                                  height_above_sea_level),
                            unit)
    ELSE convert_pressure(reading.pressure, unit)

\* whether the call reaches the power of physics.py line 297
NeedsPower ==
    /\ args.as_pressure_at_sea_level
    /\ args.height_above_sea_level # None
    /\ pressure_at_sea_level(Reading.pressure, Reading.temperature,
                             args.height_above_sea_level).exc = "none"

\* get_pressure; the calls that reach the power are left out
GetPressure ==
    /\ pc = "get_data"
    /\ args.fn = "get_pressure"
    /\ ~NeedsPower
    /\ Finish(get_pressure(Reading, args.unit, args.height_above_sea_level,
                           args.as_pressure_at_sea_level))
    /\ UNCHANGED <<oversampling, reg_data, ops, cal, data, frame, calls,
                   args, past, sensor, printed>>


\* print_data keeps the results of its conversions in locals, or raises
\* what the first failing conversion raised
KeepConverted(temperature, pressure, humidity, humidity_unit) ==
    LET raised == IF temperature.exc # "none" THEN temperature.exc
                  ELSE IF pressure.exc # "none" THEN pressure.exc
                  ELSE humidity.exc
    IN  IF raised # "none"
        THEN Raise(raised) /\ ret' = None /\ frame' = frame
        ELSE /\ frame' = [frame EXCEPT !.converted =
                            [temperature |-> temperature.value,
                             pressure |-> pressure.value,
                             humidity |-> humidity.value,
                             humidity_unit |-> humidity_unit]]
             /\ pc' = "round_to_n_significant_digits"
             /\ UNCHANGED <<ret, exc>>

\* print_data, lines 178-186, after get_data: the conversions
PrintConvert ==
    /\ pc = "get_data"
    /\ args.fn = "print_data"
    /\ KeepConverted(
         convert_temperature(Reading.temperature, args.temp_unit),
         convert_pressure(Reading.pressure, args.pressure_unit),
         IF args.relative_humidity THEN Returned(Reading.humidity)
         ELSE calculate_abs_humidity(Reading.pressure, Reading.temperature,
                                     Reading.humidity),
         IF args.relative_humidity THEN "%" ELSE "kg / m^3")
    /\ UNCHANGED <<oversampling, reg_data, ops, cal, data, calls, args,
                   past, sensor, printed>>

\* print_data prints the three rounded values, or raises what the first
\* failing rounding raised
PrintRounded(temperature, humidity, pressure) ==
    LET raised == IF temperature.exc # "none" THEN temperature.exc
                  ELSE IF humidity.exc # "none" THEN humidity.exc
                  ELSE pressure.exc
    IN  IF raised # "none"
        THEN Raise(raised) /\ printed' = printed
        ELSE /\ printed' = printed \o
                  <<<<"Temperature: ", temperature.value, args.temp_unit>>,
                    <<"Humidity:    ", humidity.value,
                      frame.converted.humidity_unit>>,
                    <<"Pressure:    ", pressure.value, args.pressure_unit>>>>
             /\ pc' = "returned"
             /\ exc' = exc

\* print_data, lines 189-197: the roundings, then the three lines
PrintData ==
    /\ pc = "round_to_n_significant_digits"
    /\ PrintRounded(
         round_to_n_significant_digits(frame.converted.temperature,
                                       args.n_significant_digits),
         round_to_n_significant_digits(frame.converted.humidity,
                                       args.n_significant_digits),
         round_to_n_significant_digits(frame.converted.pressure,
                                       args.n_significant_digits))
    /\ ret' = None
    /\ UNCHANGED <<oversampling, reg_data, ops, cal, data, frame, calls,
                   args, past, sensor>>

(***************************************************************************)
(* SpecSensor: a Sensor is constructed on a platform (what /proc/cpuinfo   *)
(* holds, which I2C device files exist, which device is on the bus) and up *)
(* to MaxCalls of its methods are called, one after the other; every bus   *)
(* call may fail, and the caller stops at the first that does.  Heights    *)
(* above sea level are None or such that the validation rejects them.      *)
(***************************************************************************)
MaxCalls == 2

DefaultAddress == 118

SensorCpuinfo ==
    {NoFile, File(<<<<"Revision", "\n">>>>)}
    \cup {File(<<TestLine(c)>>) : c \in RevisionCodes}

SensorArgs ==
    [fn : {"Sensor"}, address : {DefaultAddress},
     cpuinfo : {File(<<CpuinfoLine("a02082")>>)}, buses : {{0, 1}},
     device : Devices]
    \cup
    [fn : {"Sensor"}, address : {119},
     cpuinfo : {File(<<CpuinfoLine("a02082")>>)}, buses : {{0, 1}},
     device : {NormalDevice}]
    \cup
    [fn : {"Sensor"}, address : {DefaultAddress}, cpuinfo : SensorCpuinfo,
     buses : SUBSET {0, 1}, device : {NormalDevice}]

MethodArgs ==
    [fn : {"get_data"}]
    \cup [fn : {"get_temperature"}, unit : TemperatureUnits]
    \cup [fn : {"get_humidity"}, relative : BOOLEAN]
    \cup [fn : {"get_pressure"}, unit : {"hPa", "bar"},
          height_above_sea_level : {None, Num(QOf(-5)), Str},
          as_pressure_at_sea_level : BOOLEAN]
    \cup [fn : {"print_data"}, temp_unit : {"C", "F", "R"},
          relative_humidity : BOOLEAN, pressure_unit : {"hPa"},
          n_significant_digits : {IntValue(4)}]

InitSensor ==
    /\ args \in SensorArgs
    /\ pc = "initialize_bus"
    /\ oversampling = None
    /\ reg_data = DefaultRegData
    /\ ops = <<>>
    /\ exc = "none"
    /\ cal = <<>>
    /\ data = <<>>
    /\ frame = EmptyFrame
    /\ calls = <<>>
    /\ ret = None
    /\ past = <<>>
    /\ sensor = None
    /\ printed = <<>>

\* the caller: at most MaxCalls calls, and none after a bus fault
Call ==
    /\ Len(past) < MaxCalls
    /\ exc # "OSError"
    /\ CallMethod(MethodArgs)

NextSensor ==
    \/ InitializeBus
    \/ GetInfoAboutSensor
    \/ Call
    \/ Next
    \/ GetData
    \/ GetTemperature
    \/ GetHumidity
    \/ GetPressure
    \/ PrintConvert
    \/ PrintData

SpecSensor == InitSensor /\ [][NextSensor]_vars


\* the constructor has run _initialize_bus, and the detection it made
Initialized == args.fn = "Sensor" /\ pc # "initialize_bus"

Detected == detect_raspberry_pi_version(args.cpuinfo)

\* the bus number expected for a detected model
ExpectedBus ==
    IF Detected.value \in {"Model B R1", "Model A", "Model B+", "Model A+"}
    THEN 0 ELSE 1

\* C21: _initialize_bus opens bus 0 exactly when the detected model is one
\* of Model B R1, Model A, Model B+, Model A+, and bus 1 for every other
\* detection result, Unknown included: where that bus exists the Sensor
\* holds it, and where only the other bus exists the open fails.
C21_BusNumber ==
    (Initialized /\ Detected.exc = "none") =>
        IF ExpectedBus \in args.buses
        THEN sensor.kind = "Sensor" /\ sensor.bus.number = ExpectedBus
        ELSE sensor = None /\ pc = "raised"

C21_Witness ==
    /\ Initialized
    /\ Detected.value = "Model A+"
    /\ args.buses = {0}
    /\ sensor.kind = "Sensor"
    /\ sensor.bus.number = 0

\* C25: when the bus constructor raises FileNotFoundError, constructing the
\* Sensor fails with I2CException, there is no Sensor object, and no bus
\* read or write has been issued.
C25_InterfaceNotConfigured ==
    (Initialized /\ Detected.exc = "none" /\ ExpectedBus \notin args.buses) =>
        /\ pc = "raised"
        /\ exc = "I2CException"
        /\ ret = None
        /\ sensor = None
        /\ ops = <<>>

C25_Witness ==
    /\ Initialized
    /\ args.buses = {}
    /\ Detected.value = "Pi 3 Model B"
    /\ exc = "I2CException"


\* the bus operations issued so far, the sleeps left out
BusOps == SelectSeq(ops, LAMBDA op : op.op # "sleep")

\* the bus operations of one read sequence at the Sensor's address, with
\* the default oversampling and data register
ReadSequence ==
    <<WriteOp(242, 2, TRUE), WriteOp(244, 73, TRUE), ReadOp(136, 24, TRUE),
      ReadOp(161, 1, TRUE), ReadOp(225, 7, TRUE), ReadOp(247, 8, TRUE)>>

\* a method call has got its reading, or has ended
AfterGetData ==
    args.fn # "Sensor" /\ pc \in {"get_data", "returned", "raised"}

\* C30: on a bus that never faults, the first operation of a Sensor is the
\* constructor's read of 2 bytes at 0xD0, the only one before a method is
\* called; every method call (get_data, get_temperature, get_pressure,
\* get_humidity, print_data, raising or not) then adds one read sequence of
\* 2 writes and 4 reads at the Sensor's address with oversampling 2/2/2 and
\* data register 0xF7, so after k calls the bus has seen 1 + 6k operations.
C30_BusOperations ==
    (sensor.kind = "Sensor" /\ NoFault) =>
        /\ Len(BusOps) <= 1 + 6 * Len(past)
        /\ BusOps # <<>> =>
             BusOps[1] = [op |-> "read_i2c_block_data",
                          address |-> sensor.address, register |-> 208,
                          length |-> 2, ok |-> TRUE]
        /\ \A i \in 2..Len(BusOps) :
             /\ BusOps[i] = ReadSequence[((i - 2) % 6) + 1]
             /\ BusOps[i].address = sensor.address
        /\ (pc = "returned" /\ args.fn = "Sensor") => Len(BusOps) = 1
        /\ AfterGetData => Len(BusOps) = 1 + 6 * Len(past)

C30_Witness ==
    /\ sensor.kind = "Sensor"
    /\ sensor.address = 119
    /\ NoFault
    /\ Len(past) = MaxCalls
    /\ Len(BusOps) = 1 + 6 * MaxCalls
    /\ pc = "raised"
    /\ past[MaxCalls].data # <<>>


\* the reading the call's get_data returned, from what extract_values
\* computed
ReadingOfCall ==
    [temperature |-> Num(QDiv(QOf(frame.temperature), QOf(100))),
     pressure |-> Num(QDiv(frame.pressure, QOf(100))),
     humidity |-> Num(frame.humidity)]

\* a get_pressure call has ended
GetPressureEnded ==
    args.fn = "get_pressure" /\ pc \in {"returned", "raised"}

\* C26: get_pressure with as_pressure_at_sea_level=True and no height never
\* returns a pressure, and raises ValueError whenever its reading succeeded;
\* with as_pressure_at_sea_level=False the height plays no part: the call
\* does what convert_pressure does with the reading's pressure and the
\* unit, whatever the height is (None, a negative number, a str).
C26_SeaLevelNeedsHeight ==
    GetPressureEnded =>
        /\ (args.as_pressure_at_sea_level
              /\ args.height_above_sea_level = None) =>
             /\ pc = "raised"
             /\ ret = None
             /\ NoFault => exc = "ValueError"
        /\ (~args.as_pressure_at_sea_level /\ NoFault) =>
             LET converted == convert_pressure(ReadingOfCall.pressure,
                                               args.unit)
             IN  /\ exc = converted.exc
                 /\ ret = converted.value
                 /\ (converted.exc = "none") = (pc = "returned")

C26_Witness ==
    /\ GetPressureEnded
    /\ NoFault
    /\ args.as_pressure_at_sea_level
    /\ args.height_above_sea_level = None
    /\ args.unit = "hPa"
    /\ sensor.bus.device = NormalDevice
    /\ exc = "ValueError"


\* the read of this call gave a pressure of 0
ZeroPressureRead ==
    /\ args.fn # "Sensor"
    /\ NoFault
    /\ frame.pressure # None
    /\ QSign(frame.pressure) = 0

RoundSamples ==
    {Num(QOf(0)), Num(Dec(1, 1000)), Num(Dec(2465, 100)), Num(QOf(-1234)),
     Str}

\* round_to_n_significant_digits on RoundSamples and DigitSamples: TypeError
\* for a value that is no number or an n_digits that is no int, ValueError
\* for n_digits <= 0, ValueError for the value 0, and a result otherwise
RoundingContract ==
    \A value \in RoundSamples, n_digits \in DigitSamples :
        LET r == round_to_n_significant_digits(value, n_digits)
        IN  IF value = Str \/ n_digits.kind # "int"
            THEN r = Raised("TypeError")
            ELSE IF n_digits.n <= 0 THEN r = Raised("ValueError")
            ELSE IF QSign(value.q) = 0 THEN r = Raised("ValueError")
            ELSE r.exc = "none" /\ r.value.value = value

\* a print_data call has ended, on a bus that did not fault
PrintEnded ==
    args.fn = "print_data" /\ pc \in {"returned", "raised"} /\ NoFault

ZeroHumidityRead == QSign(frame.humidity) = 0

ZeroTemperatureRead == frame.temperature = 0

\* the lines print_data has printed with the temperature in unit
PrintedIn(unit) ==
    {i \in 1..Len(printed) :
       printed[i][1] = "Temperature: " /\ printed[i][3] = unit}

\* C28 (as claimed): round_to_n_significant_digits raises as RoundingContract
\* says, and print_data fails, printing nothing, whenever the reading's
\* humidity is 0 or its temperature is exactly 0.
C28_PrintFailsAtZero ==
    /\ RoundingContract
    /\ (PrintEnded /\ (ZeroHumidityRead \/ ZeroTemperatureRead)) =>
         (pc = "raised" /\ printed = <<>>)

\* C28 (amended): round_to_n_significant_digits raises as RoundingContract
\* says; print_data fails, printing nothing, whenever the reading's
\* humidity is 0 (relative or absolute) and whenever its temperature is
\* exactly 0 and temp_unit is C; with a temperature of exactly 0, a
\* humidity above 0, a valid pressure and temp_unit F the converted
\* temperature is 32, the rounding succeeds and the three lines are printed.
C28_PrintFailsAtRoundedZero ==
    /\ RoundingContract
    /\ (PrintEnded /\ ZeroHumidityRead) =>
         /\ pc = "raised"
         /\ ret = None
         /\ printed = <<>>
         /\ args.temp_unit \in {"C", "F", "K"} => exc = "ValueError"
    /\ (PrintEnded /\ ZeroTemperatureRead /\ args.temp_unit = "C") =>
         /\ pc = "raised"
         /\ exc = "ValueError"
         /\ ret = None
    /\ (PrintEnded /\ ZeroTemperatureRead) => PrintedIn("C") = {}
    /\ (PrintEnded /\ ZeroTemperatureRead /\ ~ZeroHumidityRead
          /\ validate_pressure(ReadingOfCall.pressure) = "none"
          /\ args.temp_unit = "F") =>
         /\ pc = "returned"
         /\ exc = "none"
         /\ Len(printed) >= 3
         /\ LET line == printed[Len(printed) - 2]
            IN  /\ line[1] = "Temperature: "
                /\ line[3] = "F"
                /\ QEq(line[2].value.q, QOf(32))

C28_Witness ==
    /\ PrintEnded
    /\ ZeroTemperatureRead
    /\ ~ZeroHumidityRead
    /\ args.temp_unit = "F"
    /\ pc = "returned"
    /\ Len(printed) = 3

=============================================================================
